---- MODULE Spec2Model ----
(***************************************************************************)
(* LinkedIn post generator: the prompt catalog (src/src/prompts.py), the   *)
(* generation client (src/src/generator.py), the SQLite store              *)
(* (src/src/database.py) and the Streamlit pages (src/app.py).             *)
(*                                                                         *)
(* Python strings are sequences of one-character strings, so that strip,   *)
(* split, startswith, lower and int are computed as Python computes them.  *)
(***************************************************************************)
EXTENDS Integers, Sequences, FiniteSets, TLC

VARIABLES
    pr_call,        \* prompts.py: the catalog function called and its arguments
    pr_ret,         \* prompts.py: what that call returned
    gen_call,       \* generator.py: the method invoked and its arguments
    gen_requests,   \* generator.py: requests sent to the service by that invocation, in order
    gen_outcomes,   \* the service's outcome for each of those requests, in order
    gen_ret,        \* generator.py: how that invocation ended (return or raise)
    db,             \* database.py: the tables posts, drafts, settings and their AUTOINCREMENT counters
    clock,          \* the second CURRENT_TIMESTAMP reads
    db_ops,         \* number of writing store operations so far
    db_call,        \* database.py: the last method called and its arguments
    db_ret,         \* database.py: what that call returned
    environ,        \* app.py: GROQ_API_KEY as os.getenv reads it
    session_state,  \* app.py: st.session_state
    run,            \* app.py: the last script run - its page, the widget event, the calls it made
    runs,           \* app.py: number of script runs so far
    ut_call,        \* utils.py: the helper called and its argument
    ut_ret,         \* utils.py: what that call returned
    ut_prev,        \* utils.py: the call before it and what it returned
    ut_later,       \* utils.py: whether the clock moved since the latest call
    sessions        \* app.py: two browser sessions on one store - where each is in its
                    \* click on Favorite, and the write transaction that is open

prvars == <<pr_call, pr_ret>>
genvars == <<gen_call, gen_requests, gen_outcomes, gen_ret>>
dbvars == <<db, clock, db_ops, db_call, db_ret>>
appvars == <<environ, session_state, run, runs>>
utvars == <<ut_call, ut_ret, ut_prev, ut_later>>
vars == <<pr_call, pr_ret, gen_call, gen_requests, gen_outcomes, gen_ret,
          db, clock, db_ops, db_call, db_ret, environ, session_state, run, runs,
          ut_call, ut_ret, ut_prev, ut_later, sessions>>

\* Python's None, where a prompt is expected
None == [template |-> <<>>, args |-> <<>>]

\* no call made yet
NoCall == [fn |-> "none"]

PromptsIdle == pr_call = NoCall /\ pr_ret = None
GenIdle == gen_call = NoCall /\ gen_requests = <<>> /\ gen_outcomes = <<>> /\ gen_ret = [kind |-> "none"]

\* the tables as _create_tables makes them in a new file
EmptyDb == [posts |-> <<>>, drafts |-> <<>>, settings |-> <<>>, post_seq |-> 0, draft_seq |-> 0]

NoReturn == [kind |-> "none"]

DbIdle == db = EmptyDb /\ clock = 0 /\ db_ops = 0 /\ db_call = NoCall /\ db_ret = NoReturn

\* Python's None, where a string or an object is expected
PyNone == [kind |-> "None"]

\* the script has not run
NoRun == [page |-> "none"]

AppIdle == environ = PyNone /\ session_state = NoRun /\ run = NoRun /\ runs = 0

\* no second session
SessionsIdle == sessions = [post_id |-> 0]

UtIdle == ut_call = NoCall /\ ut_ret = NoReturn /\ ut_prev = NoCall /\ ut_later = FALSE

(***************************************************************************)
(* Python str operations                                                   *)
(***************************************************************************)
Whitespace == {" ", "\n", "\t"}

UpperCase == <<"A", "B", "C", "D", "E", "F", "G", "H", "I", "J", "K", "L", "M",
               "N", "O", "P", "Q", "R", "S", "T", "U", "V", "W", "X", "Y", "Z">>
LowerCase == <<"a", "b", "c", "d", "e", "f", "g", "h", "i", "j", "k", "l", "m",
               "n", "o", "p", "q", "r", "s", "t", "u", "v", "w", "x", "y", "z">>

\* str.lower() on one character
lower_char(c) ==
    IF \E i \in 1..Len(UpperCase) : UpperCase[i] = c
    THEN LowerCase[CHOOSE i \in 1..Len(UpperCase) : UpperCase[i] = c]
    ELSE c

\* str.lower()
lower(s) == [i \in 1..Len(s) |-> lower_char(s[i])]

\* str.replace(old, new) for one-character old and new
replace(s, old, new) == [i \in 1..Len(s) |-> IF s[i] = old THEN new ELSE s[i]]

RECURSIVE lstrip(_)
lstrip(s) ==
    IF s = <<>> THEN s
    ELSE IF Head(s) \in Whitespace THEN lstrip(Tail(s)) ELSE s

RECURSIVE rstrip(_)
rstrip(s) ==
    IF s = <<>> THEN s
    ELSE IF s[Len(s)] \in Whitespace THEN rstrip(SubSeq(s, 1, Len(s) - 1)) ELSE s

\* str.strip()
strip(s) == rstrip(lstrip(s))

\* str.startswith(prefix)
startswith(s, prefix) ==
    /\ Len(prefix) <= Len(s)
    /\ SubSeq(s, 1, Len(prefix)) = prefix

\* sep in s, for a one-character sep
contains(s, sep) == \E i \in 1..Len(s) : s[i] = sep

\* index of the first occurrence of sep in s (0 when there is none)
find(s, sep) ==
    IF contains(s, sep) THEN CHOOSE i \in 1..Len(s) : s[i] = sep /\ \A j \in 1..(i - 1) : s[j] # sep
    ELSE 0

\* str.split(sep) for a one-character sep: every occurrence separates, empty
\* pieces are kept, the result has at least one piece
RECURSIVE split(_, _)
split(s, sep) ==
    IF ~contains(s, sep) THEN <<s>>
    ELSE <<SubSeq(s, 1, find(s, sep) - 1)>> \o split(SubSeq(s, find(s, sep) + 1, Len(s)), sep)

\* str.split(sep, 1): at most one split, at the first occurrence
split1(s, sep) ==
    IF ~contains(s, sep) THEN <<s>>
    ELSE <<SubSeq(s, 1, find(s, sep) - 1), SubSeq(s, find(s, sep) + 1, Len(s))>>

\* str.split() with no argument: runs of whitespace separate, no empty piece
RECURSIVE split_ws_from(_, _)
split_ws_from(s, word) ==
    IF s = <<>> THEN (IF word = <<>> THEN <<>> ELSE <<word>>)
    ELSE IF Head(s) \in Whitespace
         THEN (IF word = <<>> THEN <<>> ELSE <<word>>) \o split_ws_from(Tail(s), <<>>)
         ELSE split_ws_from(Tail(s), Append(word, Head(s)))

split_ws(s) == split_ws_from(s, <<>>)

\* sep.join(parts)
RECURSIVE join(_, _)
join(sep, parts) ==
    IF parts = <<>> THEN <<>>
    ELSE IF Len(parts) = 1 THEN parts[1]
    ELSE parts[1] \o sep \o join(sep, Tail(parts))

Digits == <<"0", "1", "2", "3", "4", "5", "6", "7", "8", "9">>
is_digit(c) == \E i \in 1..Len(Digits) : Digits[i] = c
digit_value(c) == (CHOOSE i \in 1..Len(Digits) : Digits[i] = c) - 1

RECURSIVE digits_value(_, _)
digits_value(s, acc) ==
    IF s = <<>> THEN acc
    ELSE IF Head(s) = "_" THEN digits_value(Tail(s), acc)
    ELSE digits_value(Tail(s), 10 * acc + digit_value(Head(s)))

\* the digit part of an int literal: digits, single underscores only between digits
is_int_body(s) ==
    /\ s # <<>>
    /\ \A i \in 1..Len(s) : is_digit(s[i]) \/ s[i] = "_"
    /\ is_digit(s[1]) /\ is_digit(s[Len(s)])
    /\ \A i \in 1..(Len(s) - 1) : ~(s[i] = "_" /\ s[i + 1] = "_")

\* int(s): surrounding whitespace and one sign are accepted; anything else is a
\* ValueError (ok = FALSE)
int(s) ==
    LET t == strip(s)
        signed == t # <<>> /\ Head(t) \in {"+", "-"}
        body == IF signed THEN Tail(t) ELSE t
    IN  IF is_int_body(body)
        THEN [ok |-> TRUE,
              value |-> IF signed /\ Head(t) = "-" THEN 0 - digits_value(body, 0)
                        ELSE digits_value(body, 0)]
        ELSE [ok |-> FALSE, value |-> 0]

(***************************************************************************)
(* String literals of the source                                           *)
(***************************************************************************)
s_professional == <<"p", "r", "o", "f", "e", "s", "s", "i", "o", "n", "a", "l">>
s_casual == <<"c", "a", "s", "u", "a", "l">>
s_motivational == <<"m", "o", "t", "i", "v", "a", "t", "i", "o", "n", "a", "l">>
s_educational == <<"e", "d", "u", "c", "a", "t", "i", "o", "n", "a", "l">>
s_storytelling == <<"s", "t", "o", "r", "y", "t", "e", "l", "l", "i", "n", "g">>
s_thought_leadership == <<"t", "h", "o", "u", "g", "h", "t", "-", "l", "e", "a", "d", "e", "r", "s", "h", "i", "p">>
s_general == <<"g", "e", "n", "e", "r", "a", "l">>
s_announcement == <<"a", "n", "n", "o", "u", "n", "c", "e", "m", "e", "n", "t">>
s_tips == <<"t", "i", "p", "s">>
s_question == <<"q", "u", "e", "s", "t", "i", "o", "n">>
s_achievement == <<"a", "c", "h", "i", "e", "v", "e", "m", "e", "n", "t">>
s_industry_insight == <<"i", "n", "d", "u", "s", "t", "r", "y", "_", "i", "n", "s", "i", "g", "h", "t">>
s_make_shorter == <<"m", "a", "k", "e", "_", "s", "h", "o", "r", "t", "e", "r">>
s_make_longer == <<"m", "a", "k", "e", "_", "l", "o", "n", "g", "e", "r">>
s_add_storytelling == <<"a", "d", "d", "_", "s", "t", "o", "r", "y", "t", "e", "l", "l", "i", "n", "g">>
s_more_professional == <<"m", "o", "r", "e", "_", "p", "r", "o", "f", "e", "s", "s", "i", "o", "n", "a", "l">>
s_add_cta == <<"a", "d", "d", "_", "c", "t", "a">>
s_short == <<"s", "h", "o", "r", "t">>
s_medium == <<"m", "e", "d", "i", "u", "m">>
s_long == <<"l", "o", "n", "g">>

\* strings that are in no table of prompts.py, used as inputs
s_Professional == <<"P", "r", "o", "f", "e", "s", "s", "i", "o", "n", "a", "l">>
s_CASUAL == <<"C", "A", "S", "U", "A", "L">>
s_funny == <<"f", "u", "n", "n", "y">>
s_industry_insight_spaced == <<"i", "n", "d", "u", "s", "t", "r", "y", " ", "i", "n", "s", "i", "g", "h", "t">>
s_poll == <<"p", "o", "l", "l">>
s_shorten == <<"s", "h", "o", "r", "t", "e", "n">>
s_lengthen == <<"l", "e", "n", "g", "t", "h", "e", "n">>
s_translate == <<"t", "r", "a", "n", "s", "l", "a", "t", "e">>

(***************************************************************************)
(* Bounds and input sets                                                   *)
(***************************************************************************)
MaxTopicLen == 2

RECURSIVE StringsUpTo(_, _)
StringsUpTo(chars, n) ==
    IF n = 0 THEN {<<>>}
    ELSE LET shorter == StringsUpTo(chars, n - 1)
         IN  shorter \cup {Append(s, c) : s \in shorter, c \in chars}

\* topics: the empty string, whitespace-only strings and strings with text
Topics == StringsUpTo({" ", "a"}, MaxTopicLen)

ToneInputs == {s_professional, s_casual, s_motivational, s_educational, s_storytelling,
               s_thought_leadership, s_Professional, s_CASUAL, s_funny}
LengthInputs == {s_short, s_medium, s_long}
PostTypeInputs == {s_general, s_announcement, s_tips, s_question, s_achievement,
                   s_industry_insight, s_industry_insight_spaced, s_poll}
RefinementInputs == {s_make_shorter, s_make_longer, s_add_storytelling, s_more_professional,
                     s_add_cta, s_shorten, s_lengthen, s_translate}

(***************************************************************************)
(* src/src/prompts.py: the prompt catalog                                  *)
(*                                                                         *)
(* A template is its table, its key and the placeholders its text holds;   *)
(* str.format fills exactly those placeholders from the keyword arguments. *)
(***************************************************************************)
Template(table, key, fields) == [table |-> table, key |-> key, fields |-> fields]

POST_GENERATION_PROMPTS ==
    [k \in {s_professional, s_casual, s_motivational, s_educational, s_storytelling,
            s_thought_leadership}
        |-> Template("POST_GENERATION_PROMPTS", k, {"topic", "length"})]

REFINEMENT_PROMPTS ==
    [k \in {s_make_shorter, s_make_longer, s_add_storytelling, s_more_professional, s_add_cta}
        |-> Template("REFINEMENT_PROMPTS", k, {"post"})]

POST_TYPE_PROMPTS ==
    [k \in {s_announcement, s_tips, s_question, s_achievement, s_industry_insight}
        |-> Template("POST_TYPE_PROMPTS", k, {"topic", "length", "tone"})]

HASHTAG_PROMPT == Template("HASHTAG_PROMPT", <<>>, {"topic"})
HOOK_GENERATION_PROMPT == Template("HOOK_GENERATION_PROMPT", <<>>, {"topic"})
ENGAGEMENT_SCORE_PROMPT == Template("ENGAGEMENT_SCORE_PROMPT", <<>>, {"post"})

\* template.format(**kwargs): the rendered prompt
format(template, kwargs) ==
    [template |-> <<template.table, template.key>>,
     args |-> [f \in template.fields |-> kwargs[f]]]

get_post_prompt_wrong_order(tone, topic, length, post_type) ==
    IF lower(tone) \in DOMAIN POST_GENERATION_PROMPTS
    THEN format(POST_GENERATION_PROMPTS[lower(tone)], [topic |-> topic, length |-> length])
    ELSE IF post_type # s_general /\ post_type \in DOMAIN POST_TYPE_PROMPTS
    THEN format(POST_TYPE_PROMPTS[post_type], [topic |-> topic, length |-> length, tone |-> tone])
    ELSE format(POST_GENERATION_PROMPTS[s_professional], [topic |-> topic, length |-> length])

get_post_prompt(tone, topic, length, post_type) ==
    IF post_type # s_general /\ post_type \in DOMAIN POST_TYPE_PROMPTS
    THEN format(POST_TYPE_PROMPTS[post_type], [topic |-> topic, length |-> length, tone |-> tone])
    ELSE IF lower(tone) \in DOMAIN POST_GENERATION_PROMPTS
    THEN format(POST_GENERATION_PROMPTS[lower(tone)], [topic |-> topic, length |-> length])
    ELSE format(POST_GENERATION_PROMPTS[s_professional], [topic |-> topic, length |-> length])

get_hashtag_prompt(topic) == format(HASHTAG_PROMPT, [topic |-> topic])

get_hook_prompt(topic) == format(HOOK_GENERATION_PROMPT, [topic |-> topic])

get_refinement_prompt_spec_names(refinement_type, post) ==
    IF refinement_type \in {s_shorten, s_lengthen, s_add_storytelling, s_more_professional, s_add_cta}
    THEN format(Template("REFINEMENT_PROMPTS", refinement_type, {"post"}), [post |-> post])
    ELSE None

get_refinement_prompt(refinement_type, post) ==
    IF refinement_type \in DOMAIN REFINEMENT_PROMPTS
    THEN format(REFINEMENT_PROMPTS[refinement_type], [post |-> post])
    ELSE None

get_engagement_score_prompt(post) == format(ENGAGEMENT_SCORE_PROMPT, [post |-> post])

(***************************************************************************)
(* Calls into the prompt catalog                                           *)
(***************************************************************************)
InitPrompts == PromptsIdle /\ GenIdle /\ UtIdle /\ SessionsIdle /\ DbIdle /\ AppIdle

\* one call per behaviour: the catalog is stateless, so a second call adds nothing
CallGetPostPrompt ==
    /\ pr_call = NoCall
    /\ \E tone \in ToneInputs, topic \in Topics, length \in LengthInputs, post_type \in PostTypeInputs :
        /\ pr_call' = [fn |-> "get_post_prompt", tone |-> tone, topic |-> topic,
                       length |-> length, post_type |-> post_type]
        /\ pr_ret' = get_post_prompt(tone, topic, length, post_type)
        /\ UNCHANGED <<sessions, utvars, genvars, dbvars, appvars>>

CallGetRefinementPrompt ==
    /\ pr_call = NoCall
    /\ \E refinement_type \in RefinementInputs, post \in Topics :
        /\ pr_call' = [fn |-> "get_refinement_prompt", refinement_type |-> refinement_type,
                       post |-> post]
        /\ pr_ret' = get_refinement_prompt(refinement_type, post)
        /\ UNCHANGED <<sessions, utvars, genvars, dbvars, appvars>>

NextPrompts == CallGetPostPrompt \/ CallGetRefinementPrompt

SpecPrompts == InitPrompts /\ [][NextPrompts]_vars

(***************************************************************************)
(* Claims about the prompt catalog (checked under SpecPrompts)             *)
(***************************************************************************)

\* C9: get_post_prompt selects the post-type template whenever POST_TYPE_PROMPTS
\* has one for post_type; otherwise the tone template whenever
\* POST_GENERATION_PROMPTS has one for the tone (the tone's name compared in lower
\* case, as the code compares it); otherwise the "professional" template. It
\* returns a rendered prompt, never None, for every tone and post_type, and the
\* prompt carries the caller's topic and length.
C9_SelectionRule ==
    pr_call.fn = "get_post_prompt" =>
        /\ pr_ret # None
        /\ pr_ret.template =
              IF pr_call.post_type \in DOMAIN POST_TYPE_PROMPTS
              THEN <<"POST_TYPE_PROMPTS", pr_call.post_type>>
              ELSE IF \E k \in DOMAIN POST_GENERATION_PROMPTS : k = lower(pr_call.tone)
              THEN <<"POST_GENERATION_PROMPTS", lower(pr_call.tone)>>
              ELSE <<"POST_GENERATION_PROMPTS", s_professional>>
        /\ pr_ret.args.topic = pr_call.topic
        /\ pr_ret.args.length = pr_call.length

\* C9 witness: a call whose post_type and tone both have a template, answered
\* with the post-type template.
C9_Witness ==
    /\ pr_call.fn = "get_post_prompt"
    /\ pr_call.post_type = s_tips
    /\ pr_call.tone = s_casual
    /\ pr_ret.template = <<"POST_TYPE_PROMPTS", s_tips>>

\* C10 as stated: the refinement lookup resolves to a template for exactly the
\* kinds shorten, lengthen, add_storytelling, more_professional and add_cta, and
\* to None for every other kind.
C10_SpecKinds ==
    pr_call.fn = "get_refinement_prompt" =>
        (pr_ret # None <=>
            pr_call.refinement_type \in
                {s_shorten, s_lengthen, s_add_storytelling, s_more_professional, s_add_cta})

\* C10 amended: the refinement lookup resolves to a template for exactly the
\* kinds make_shorter, make_longer, add_storytelling, more_professional and
\* add_cta (the template of that kind, rendered with the post), and to None for
\* every other kind, "shorten" and "lengthen" included.
C10_CodeKinds ==
    pr_call.fn = "get_refinement_prompt" =>
        IF pr_call.refinement_type \in
              {s_make_shorter, s_make_longer, s_add_storytelling, s_more_professional, s_add_cta}
        THEN /\ pr_ret # None
             /\ pr_ret.template = <<"REFINEMENT_PROMPTS", pr_call.refinement_type>>
             /\ pr_ret.args.post = pr_call.post
        ELSE pr_ret = None

\* C10 witness: make_shorter resolved to its template.
C10_Witness ==
    /\ pr_call.fn = "get_refinement_prompt"
    /\ pr_call.refinement_type = s_make_shorter
    /\ pr_ret.template = <<"REFINEMENT_PROMPTS", s_make_shorter>>

(***************************************************************************)
(* src/src/generator.py: the generation client                             *)
(*                                                                         *)
(* The external service answers a request with a reply text, with a        *)
(* message that has no content, or with an error.  A method is given the   *)
(* outcomes the service would give to its successive requests (outs) and   *)
(* yields the requests it sent and how it ended.                           *)
(***************************************************************************)
s_Hook == <<"H", "o", "o", "k">>
s_Hook_colon == <<"H", "o", "o", "k", ":">>
s_Content_colon == <<"C", "o", "n", "t", "e", "n", "t", ":">>
s_Readability_colon == <<"R", "e", "a", "d", "a", "b", "i", "l", "i", "t", "y", ":">>
s_CTA_colon == <<"C", "T", "A", ":">>
s_Authenticity_colon == <<"A", "u", "t", "h", "e", "n", "t", "i", "c", "i", "t", "y", ":">>
s_Total_colon == <<"T", "o", "t", "a", "l", ":">>
s_Prediction_colon == <<"P", "r", "e", "d", "i", "c", "t", "i", "o", "n", ":">>
s_Unknown == <<"U", "n", "k", "n", "o", "w", "n">>

Reply(text) == [kind |-> "reply", content |-> text]
NoContent == [kind |-> "no_content"]
ServiceError(name) == [kind |-> "error", error |-> name]

ServiceErrors == {ServiceError("AuthenticationError"), ServiceError("APIConnectionError"),
                  ServiceError("RateLimitError")}

Return(value) == [kind |-> "return", value |-> value]
Raise(exc, message) == [kind |-> "raise", exc |-> exc, message |-> message]

\* the chat-completion request _call_groq_api sends; temperature in hundredths
Request(prompt, temperature, max_tokens) ==
    [system |-> "SYSTEM_PROMPT", user |-> prompt, model |-> "llama-3.3-70b-versatile",
     temperature |-> temperature, max_tokens |-> max_tokens]

\* _call_groq_api, given the service's outcome for its one request: the reply
\* stripped, or any exception (a message without content raises inside the try)
\* wrapped in Exception
_call_groq_api(outcome) ==
    IF outcome.kind = "reply" THEN Return(strip(outcome.content))
    ELSE IF outcome.kind = "no_content"
    THEN Raise("Exception", <<"Error calling Groq API: ", "AttributeError">>)
    ELSE Raise("Exception", <<"Error calling Groq API: ", outcome.error>>)

\* a method that sends one request and ends as _call_groq_api ends
Ended(requests, ret) == [requests |-> requests, ret |-> ret]

generate_post_no_check(topic, tone, length, post_type, outs) ==
    Ended(<<Request(get_post_prompt(tone, topic, length, post_type), 80, 1500)>>,
          _call_groq_api(outs[1]))

generate_post(topic, tone, length, post_type, outs) ==
    IF topic = <<>> \/ strip(topic) = <<>>
    THEN Ended(<<>>, Raise("ValueError", <<"Topic cannot be empty">>))
    ELSE Ended(<<Request(get_post_prompt(tone, topic, length, post_type), 80, 1500)>>,
               _call_groq_api(outs[1]))

clean_hashtags_keeps_words(response) ==
    LET hashtags == strip(response)
    IN  IF ~startswith(hashtags, <<"#">>)
        THEN join(<<" ">>, split_ws(hashtags))
        ELSE hashtags

\* the response clean-up of generate_hashtags
clean_hashtags(response) ==
    LET hashtags == strip(response)
    IN  IF ~startswith(hashtags, <<"#">>)
        THEN join(<<" ">>, SelectSeq(split_ws(hashtags), LAMBDA word : startswith(word, <<"#">>)))
        ELSE hashtags

generate_hashtags(topic, outs) ==
    LET hashtags == _call_groq_api(outs[1])
    IN  Ended(<<Request(get_hashtag_prompt(topic), 60, 200)>>,
              IF hashtags.kind = "raise" THEN hashtags
              ELSE Return(clean_hashtags(hashtags.value)))

\* the hook parser of generate_hooks
RECURSIVE parse_hooks(_)
parse_hooks(lines) ==
    IF lines = <<>> THEN <<>>
    ELSE LET line == Head(lines)
         IN  IF startswith(strip(line), s_Hook)
             THEN <<IF contains(line, ":") THEN strip(split1(line, ":")[2]) ELSE line>>
                    \o parse_hooks(Tail(lines))
             ELSE parse_hooks(Tail(lines))

\* a parser that takes the text after the last colon
RECURSIVE parse_hooks_last_colon(_)
parse_hooks_last_colon(lines) ==
    IF lines = <<>> THEN <<>>
    ELSE LET line == Head(lines)
         IN  IF startswith(strip(line), s_Hook)
             THEN <<IF contains(line, ":")
                    THEN strip(split(line, ":")[Len(split(line, ":"))]) ELSE line>>
                    \o parse_hooks_last_colon(Tail(lines))
             ELSE parse_hooks_last_colon(Tail(lines))

generate_hooks_last_colon(topic, outs) ==
    LET response == _call_groq_api(outs[1])
    IN  Ended(<<Request(get_hook_prompt(topic), 90, 300)>>,
              IF response.kind = "raise" THEN response
              ELSE LET hooks == parse_hooks_last_colon(split(response.value, "\n"))
                   IN  Return(IF hooks # <<>> THEN hooks ELSE <<response.value>>))

generate_hooks(topic, outs) ==
    LET response == _call_groq_api(outs[1])
    IN  Ended(<<Request(get_hook_prompt(topic), 90, 300)>>,
              IF response.kind = "raise" THEN response
              ELSE LET hooks == parse_hooks(split(response.value, "\n"))
                   IN  Return(IF hooks # <<>> THEN hooks ELSE <<response.value>>))

refine_post_no_check(post, refinement_type, outs) ==
    Ended(<<Request(get_refinement_prompt(refinement_type, post), 70, 1500)>>,
          _call_groq_api(outs[1]))

refine_post(post, refinement_type, outs) ==
    LET prompt == get_refinement_prompt(refinement_type, post)
    IN  IF prompt = None
        THEN Ended(<<>>, Raise("ValueError", <<"Invalid refinement type: ", refinement_type>>))
        ELSE Ended(<<Request(prompt, 70, 1500)>>, _call_groq_api(outs[1]))

temperatures == <<70, 85, 95>>

\* min(count, 3)
min(a, b) == IF a <= b THEN a ELSE b

\* the loop of generate_variations from iteration i (0-based) on; an exception
\* of a call leaves the loop and the method
RECURSIVE variations_loop(_, _, _, _, _, _, _)
variations_loop(i, n, topic, tone, length, outs, acc) ==
    IF i >= n THEN Ended(acc.requests, Return(acc.variations))
    ELSE LET prompt == get_post_prompt(tone, topic, length, s_general)
             requests == Append(acc.requests, Request(prompt, temperatures[i + 1], 1500))
             post == _call_groq_api(outs[i + 1])
         IN  IF post.kind = "raise" THEN Ended(requests, post)
             ELSE variations_loop(i + 1, n, topic, tone, length, outs,
                                  [requests |-> requests,
                                   variations |-> Append(acc.variations, post.value)])

generate_variations_always_three(topic, tone, length, count, outs) ==
    variations_loop(0, 3, topic, tone, length, outs,
                    [requests |-> <<>>, variations |-> <<>>])

generate_variations(topic, tone, length, count, outs) ==
    variations_loop(0, min(count, 3), topic, tone, length, outs,
                    [requests |-> <<>>, variations |-> <<>>])

\* int(line.split("/")[0].split(":")[-1].strip())
score_of(line) ==
    LET before_slash == split(line, "/")[1]
        pieces == split(before_slash, ":")
    IN  int(strip(pieces[Len(pieces)]))

\* one iteration of the parsing loop of predict_engagement: the result so far
\* updated by this line, or raised = TRUE when int() raises ValueError
parse_engagement_line(result, raw_line) ==
    LET line == strip(raw_line)
        score == score_of(line)
        Set(field) == IF score.ok
                      THEN [raised |-> FALSE, result |-> [result EXCEPT ![field] = score.value]]
                      ELSE [raised |-> TRUE, result |-> result]
    IN  IF startswith(line, s_Hook_colon) THEN Set("hook")
        ELSE IF startswith(line, s_Content_colon) THEN Set("content")
        ELSE IF startswith(line, s_Readability_colon) THEN Set("readability")
        ELSE IF startswith(line, s_CTA_colon) THEN Set("cta")
        ELSE IF startswith(line, s_Authenticity_colon) THEN Set("authenticity")
        ELSE IF startswith(line, s_Total_colon) THEN Set("total")
        ELSE IF startswith(line, s_Prediction_colon)
        THEN [raised |-> FALSE,
              result |-> [result EXCEPT !.prediction = strip(split1(line, ":")[2])]]
        ELSE [raised |-> FALSE, result |-> result]

\* the parsing loop: [raised, result] after the lines, stopping at the first
\* line that raises
RECURSIVE parse_engagement(_, _)
parse_engagement(result, lines) ==
    IF lines = <<>> THEN [raised |-> FALSE, result |-> result]
    ELSE LET step == parse_engagement_line(result, Head(lines))
         IN  IF step.raised THEN step
             ELSE parse_engagement(step.result, Tail(lines))

\* the result dictionary predict_engagement starts from
engagement_defaults(response) ==
    [hook |-> 0, content |-> 0, readability |-> 0, cta |-> 0, authenticity |-> 0,
     total |-> 0, prediction |-> s_Unknown, details |-> response]

\* the point ranges the prompt declares for the scores
declared_max == [hook |-> 25, content |-> 25, readability |-> 20, cta |-> 15,
                 authenticity |-> 15, total |-> 100]

clamped(result) ==
    [f \in DOMAIN result |->
        IF f \in DOMAIN declared_max
        THEN (IF result[f] < 0 THEN 0
              ELSE IF result[f] > declared_max[f] THEN declared_max[f] ELSE result[f])
        ELSE result[f]]

predict_engagement_clamped(post, outs) ==
    LET response == _call_groq_api(outs[1])
    IN  Ended(<<Request(get_engagement_score_prompt(post), 30, 500)>>,
              IF response.kind = "raise" THEN response
              ELSE Return(clamped(parse_engagement(engagement_defaults(response.value),
                                                   split(response.value, "\n")).result)))

predict_engagement_no_except(post, outs) ==
    LET response == _call_groq_api(outs[1])
        parsed == parse_engagement(engagement_defaults(response.value),
                                   split(response.value, "\n"))
    IN  Ended(<<Request(get_engagement_score_prompt(post), 30, 500)>>,
              IF response.kind = "raise" THEN response
              ELSE IF parsed.raised THEN Raise("ValueError", <<"invalid literal for int()">>)
              ELSE Return(parsed.result))

\* try: the loop; except: pass - what was parsed before the exception stays
predict_engagement(post, outs) ==
    LET response == _call_groq_api(outs[1])
    IN  Ended(<<Request(get_engagement_score_prompt(post), 30, 500)>>,
              IF response.kind = "raise" THEN response
              ELSE Return(parse_engagement(engagement_defaults(response.value),
                                           split(response.value, "\n")).result))

add_emojis_prompt(post, topic) ==
    [template |-> <<"add_emojis", <<>>>>, args |-> [topic |-> topic, post |-> post]]

add_emojis_retry(post, topic, outs) ==
    LET first == _call_groq_api(outs[1])
        request == Request(add_emojis_prompt(post, topic), 60, 1500)
    IN  IF first.kind = "raise"
        THEN Ended(<<request, request>>, _call_groq_api(outs[2]))
        ELSE Ended(<<request>>, first)

add_emojis(post, topic, outs) ==
    Ended(<<Request(add_emojis_prompt(post, topic), 60, 1500)>>, _call_groq_api(outs[1]))

(***************************************************************************)
(* Invocations of the generation client                                    *)
(***************************************************************************)
MaxReplyLen == 2
MaxHashtagReplyLen == 3
MaxHookLines == 2
MaxEngageLines == 2

s_body_20 == <<" ", "2", "0", "/", "2", "5", " ", "-", " ", "o", "k">>
s_body_30 == <<"3", "0", "/", "2", "5">>
s_body_neg == <<" ", "-", "3", "/", "2", "5">>
s_body_na == <<" ", "n", "/", "a">>
s_body_7 == <<" ", "7">>
s_body_colon == <<" ", "1", ":", "2", "/", "2", "5">>
s_Good == <<" ", "G", "o", "o", "d">>

\* the texts obtained by joining at most n of the lines with "\n"
TextsOfLines(lines, n) == {join(<<"\n">>, ls) : ls \in StringsUpTo(lines, n)}

PostReplies == StringsUpTo({" ", "a", "\n"}, MaxReplyLen)
HashtagReplies == StringsUpTo({"#", "a", " "}, MaxHashtagReplyLen)
                  \cup {<<"a", " ", "#", "a", " ", "\n", "a", " ", "#">>,
                        <<"a", "#", "\t", "#", "#">>}

HookLines == {<<>>, <<"a">>, s_Hook, s_Hook \o <<":", " ", "a">>,
              <<" ">> \o s_Hook \o <<" ", "1", ":", "b", " ">>,
              s_Hook \o <<":", "a", ":", "b">>, <<"a", ":">> \o s_Hook}
HookReplies == TextsOfLines(HookLines, MaxHookLines)

ScorePrefixes == {s_Hook_colon, s_Content_colon, s_Readability_colon, s_CTA_colon,
                  s_Authenticity_colon, s_Total_colon}
ScoreBodies == {s_body_20, s_body_30, s_body_neg, s_body_na, s_body_colon}
\* every body after Hook: and Content:, an integer and a non-integer after the
\* other prefixes
EngageLines == {p \o b : p \in {s_Hook_colon, s_Content_colon}, b \in ScoreBodies}
               \cup {p \o b : p \in ScorePrefixes, b \in {s_body_20, s_body_na}}
               \cup {s_Prediction_colon \o s_Good, s_Prediction_colon,
                     <<" ">> \o s_Hook_colon \o s_body_7, <<"o", "k">>, <<>>}
EngageReplies == TextsOfLines(EngageLines, MaxEngageLines)

Outcomes(replies) == {Reply(r) : r \in replies} \cup {NoContent} \cup ServiceErrors

\* what the service would answer to a request a method does not send
LaterOutcomes == {Reply(<<"a">>), ServiceError("RateLimitError")}

VariationOutcomes == {Reply(<<"a">>), Reply(<<" ", "b">>), ServiceError("RateLimitError")}

GenTones == {s_casual, s_funny}
GenLengths == {s_medium, s_long}
GenPostTypes == {s_general, s_tips}
GenPosts == {<<"a">>, <<"a", " ">>}
CountInputs == {-1, 0, 1, 2, 3, 4}

InitGen == PromptsIdle /\ GenIdle /\ UtIdle /\ SessionsIdle /\ DbIdle /\ AppIdle

\* one invocation per behaviour: the client keeps no state between invocations
Invoke(call, ended, outs) ==
    /\ gen_call' = call
    /\ gen_requests' = ended.requests
    /\ gen_outcomes' = SubSeq(outs, 1, Len(ended.requests))
    /\ gen_ret' = ended.ret
    /\ UNCHANGED <<sessions, utvars, prvars, dbvars, appvars>>

InvokeGeneratePost ==
    /\ gen_call = NoCall
    /\ \E topic \in Topics, tone \in GenTones, length \in GenLengths, post_type \in GenPostTypes,
          o1 \in Outcomes(PostReplies), o2 \in LaterOutcomes :
            Invoke([fn |-> "generate_post", topic |-> topic, tone |-> tone, length |-> length,
                    post_type |-> post_type],
                   generate_post(topic, tone, length, post_type, <<o1, o2>>), <<o1, o2>>)

InvokeGenerateHashtags ==
    /\ gen_call = NoCall
    /\ \E topic \in Topics, o1 \in Outcomes(HashtagReplies), o2 \in LaterOutcomes :
            Invoke([fn |-> "generate_hashtags", topic |-> topic],
                   generate_hashtags(topic, <<o1, o2>>), <<o1, o2>>)

InvokeGenerateHooks ==
    /\ gen_call = NoCall
    /\ \E topic \in Topics, o1 \in Outcomes(HookReplies), o2 \in LaterOutcomes :
            Invoke([fn |-> "generate_hooks", topic |-> topic],
                   generate_hooks(topic, <<o1, o2>>), <<o1, o2>>)

InvokeRefinePost ==
    /\ gen_call = NoCall
    /\ \E post \in Topics, refinement_type \in RefinementInputs,
          o1 \in Outcomes(PostReplies), o2 \in LaterOutcomes :
            Invoke([fn |-> "refine_post", post |-> post, refinement_type |-> refinement_type],
                   refine_post(post, refinement_type, <<o1, o2>>), <<o1, o2>>)

InvokeGenerateVariations ==
    /\ gen_call = NoCall
    /\ \E topic \in Topics, tone \in GenTones, length \in GenLengths, count \in CountInputs,
          outs \in [1..4 -> VariationOutcomes] :
            Invoke([fn |-> "generate_variations", topic |-> topic, tone |-> tone,
                    length |-> length, count |-> count],
                   generate_variations(topic, tone, length, count, outs), outs)

InvokePredictEngagement ==
    /\ gen_call = NoCall
    /\ \E post \in GenPosts, o1 \in Outcomes(EngageReplies), o2 \in LaterOutcomes :
            Invoke([fn |-> "predict_engagement", post |-> post],
                   predict_engagement(post, <<o1, o2>>), <<o1, o2>>)

InvokeAddEmojis ==
    /\ gen_call = NoCall
    /\ \E post \in GenPosts, topic \in Topics, o1 \in Outcomes(PostReplies), o2 \in LaterOutcomes :
            Invoke([fn |-> "add_emojis", post |-> post, topic |-> topic],
                   add_emojis(post, topic, <<o1, o2>>), <<o1, o2>>)

NextGen ==
    \/ InvokeGeneratePost
    \/ InvokeGenerateHashtags
    \/ InvokeGenerateHooks
    \/ InvokeRefinePost
    \/ InvokeGenerateVariations
    \/ InvokePredictEngagement
    \/ InvokeAddEmojis

SpecGen == InitGen /\ [][NextGen]_vars

(***************************************************************************)
(* Claims about the generation client (checked under SpecGen)              *)
(***************************************************************************)
AllWhitespace(s) == \A i \in 1..Len(s) : s[i] \in Whitespace

\* v is s without its leading and trailing whitespace, nothing else changed
IsTrimOf(v, s) ==
    /\ v = <<>> \/ (v[1] \notin Whitespace /\ v[Len(v)] \notin Whitespace)
    /\ \E i \in 0..Len(s) :
          /\ i + Len(v) <= Len(s)
          /\ SubSeq(s, i + 1, i + Len(v)) = v
          /\ AllWhitespace(SubSeq(s, 1, i))
          /\ AllWhitespace(SubSeq(s, i + Len(v) + 1, Len(s)))

\* C1: for every post and every refinement kind that is not a key of
\* REFINEMENT_PROMPTS, refine_post raises ValueError ("Invalid refinement type")
\* and sends no request to the external service.
C1_RefineRejectsUnknownKind ==
    (gen_call.fn = "refine_post" /\ gen_call.refinement_type \notin DOMAIN REFINEMENT_PROMPTS) =>
        /\ gen_ret.kind = "raise"
        /\ gen_ret.exc = "ValueError"
        /\ gen_requests = <<>>

\* C1 witness: refine_post called with the unrecognized kind "translate" has
\* ended with ValueError.
C1_Witness ==
    /\ gen_call.fn = "refine_post"
    /\ gen_call.refinement_type = s_translate
    /\ gen_call.post = <<"a">>
    /\ gen_ret.kind = "raise"

\* the lines of a reply that, stripped, start with the prefix
LinesWithPrefix(reply, prefix) ==
    {i \in 1..Len(split(reply, "\n")) : startswith(strip(split(reply, "\n")[i]), prefix)}

ScoreFields ==
    {<<"hook", s_Hook_colon>>, <<"content", s_Content_colon>>,
     <<"readability", s_Readability_colon>>, <<"cta", s_CTA_colon>>,
     <<"authenticity", s_Authenticity_colon>>, <<"total", s_Total_colon>>}

\* C4: for every reply text of the service, predict_engagement returns a result
\* (it raises nothing); every score field whose prefixed line is absent from the
\* reply is 0, and prediction is "Unknown" when no Prediction: line is there.
C4_EngagementAlwaysReturns ==
    (gen_call.fn = "predict_engagement" /\ gen_outcomes[1].kind = "reply") =>
        /\ gen_ret.kind = "return"
        /\ \A f \in ScoreFields :
              LinesWithPrefix(gen_outcomes[1].content, f[2]) = {} => gen_ret.value[f[1]] = 0
        /\ LinesWithPrefix(gen_outcomes[1].content, s_Prediction_colon) = {}
              => gen_ret.value.prediction = s_Unknown

\* C4 witness: a reply with a well-formed Hook: line and a Content: line whose
\* score is not a number, and no Readability: line; the method returned with
\* readability 0.
C4_Witness ==
    /\ gen_call.fn = "predict_engagement"
    /\ gen_outcomes[1] = Reply(join(<<"\n">>, <<s_Hook_colon \o s_body_20,
                                                 s_Content_colon \o s_body_na>>))
    /\ gen_ret.kind = "return"
    /\ gen_ret.value.hook = 20
    /\ gen_ret.value.readability = 0

\* C5: generate_post with an empty or whitespace-only topic raises ValueError
\* and sends no request; with any other topic it sends exactly one request, and
\* when the service replies it returns the reply without its surrounding
\* whitespace and otherwise unchanged.
C5_GeneratePost ==
    gen_call.fn = "generate_post" =>
        IF AllWhitespace(gen_call.topic)
        THEN /\ gen_ret.kind = "raise"
             /\ gen_ret.exc = "ValueError"
             /\ gen_requests = <<>>
        ELSE /\ Len(gen_requests) = 1
             /\ gen_outcomes[1].kind = "reply" =>
                   /\ gen_ret.kind = "return"
                   /\ IsTrimOf(gen_ret.value, gen_outcomes[1].content)

\* C5 witness: a non-empty topic, a reply with whitespace on both sides, and
\* the trimmed reply returned.
C5_Witness ==
    /\ gen_call.fn = "generate_post"
    /\ gen_call.topic = <<"a">>
    /\ gen_outcomes = <<Reply(<<" ", "a">>)>>
    /\ gen_ret = Return(<<"a">>)

\* C6 as stated: generate_variations called with an empty or whitespace-only
\* topic sends no request to the external service and raises a validation
\* error, as generate_post does (stated for a count of at least one, as the
\* application calls it).
C6_VariationsRejectEmptyTopic ==
    (gen_call.fn = "generate_variations" /\ AllWhitespace(gen_call.topic) /\ gen_call.count >= 1) =>
        /\ gen_requests = <<>>
        /\ gen_ret.kind = "raise"
        /\ gen_ret.exc = "ValueError"

SingleCallMethods == {"generate_post", "generate_hashtags", "generate_hooks", "refine_post",
                      "predict_engagement", "add_emojis"}

\* C7: generate_post, generate_hashtags, generate_hooks, refine_post,
\* predict_engagement and add_emojis send at most one request per invocation;
\* when that request fails the method raises one Exception that wraps the
\* service's error ("Error calling Groq API: ..."), returns nothing and sends
\* no further request.
C7_NoRetry ==
    gen_call.fn \in SingleCallMethods =>
        /\ Len(gen_requests) <= 1
        /\ (Len(gen_requests) = 1 /\ gen_outcomes[1].kind # "reply") =>
              /\ gen_ret.kind = "raise"
              /\ gen_ret.exc = "Exception"
              /\ gen_ret.message[1] = "Error calling Groq API: "
              /\ gen_outcomes[1].kind = "error" => gen_ret.message[2] = gen_outcomes[1].error

\* C7 witness: add_emojis whose one request met a rate limit has ended with the
\* wrapped error.
C7_Witness ==
    /\ gen_call.fn = "add_emojis"
    /\ gen_outcomes = <<ServiceError("RateLimitError")>>
    /\ Len(gen_requests) = 1
    /\ gen_ret = Raise("Exception", <<"Error calling Groq API: ", "RateLimitError">>)

(***************************************************************************)
(* src/src/database.py: the persistent store                               *)
(*                                                                         *)
(* A table is the sequence of its rows in rowid order.  A method is given  *)
(* the tables (d) and yields the tables after it and what it returns.      *)
(* Timestamps are whole seconds, as CURRENT_TIMESTAMP has them.            *)
(***************************************************************************)
DefaultLimit == 50

DbResult(d, ret) == [db |-> d, ret |-> ret]

reverse(rows) == [i \in 1..Len(rows) |-> rows[Len(rows) + 1 - i]]

\* rows[offset:offset+limit], SQL's LIMIT ? OFFSET ?
limit_offset(rows, limit, offset) ==
    SubSeq(rows, offset + 1, min(Len(rows), offset + limit))

\* ORDER BY <column> DESC over timestamps 0..latest.  SQL leaves the order of
\* rows with an equal timestamp open: ties is the order the engine takes for
\* them, the scan order ("rowid_asc") or its reverse ("rowid_desc").
RECURSIVE order_by_desc(_, _, _, _)
order_by_desc(rows, column, latest, ties) ==
    IF latest < 0 THEN <<>>
    ELSE LET same == SelectSeq(rows, LAMBDA r : r[column] = latest)
         IN  (IF ties = "rowid_asc" THEN same ELSE reverse(same))
                \o order_by_desc(rows, column, latest - 1, ties)

TieOrders == {"rowid_asc", "rowid_desc"}

\* the largest value of a timestamp column (0 for an empty table)
latest_of(rows, column) ==
    IF rows = <<>> THEN 0
    ELSE LET values == {rows[i][column] : i \in 1..Len(rows)}
         IN  CHOOSE latest \in values : \A v \in values : v <= latest

\* the dictionary the post getters build from a row
post_dict(row) ==
    [id |-> row.id, topic |-> row.topic, tone |-> row.tone, length |-> row.length,
     post_type |-> row.post_type, content |-> row.content, hashtags |-> row.hashtags,
     created_at |-> row.created_at, is_favorite |-> (row.is_favorite # 0)]

draft_dict(row) ==
    [id |-> row.id, title |-> row.title, content |-> row.content, hashtags |-> row.hashtags,
     notes |-> row.notes, created_at |-> row.created_at, updated_at |-> row.updated_at]

dicts(rows, dict(_)) == [i \in 1..Len(rows) |-> dict(rows[i])]

save_post_drops_hashtags(d, now, topic, tone, length, content, hashtags, post_type) ==
    LET post_id == d.post_seq + 1
        row == [id |-> post_id, topic |-> topic, tone |-> tone, length |-> length,
                post_type |-> post_type, content |-> content, hashtags |-> <<>>,
                created_at |-> now, is_favorite |-> 0]
    IN  DbResult([d EXCEPT !.posts = Append(@, row), !.post_seq = post_id], post_id)

\* an INSERT that numbers the row one more than the largest id in the table
save_post_max_rowid(d, now, topic, tone, length, content, hashtags, post_type) ==
    LET ids == {d.posts[i].id : i \in 1..Len(d.posts)}
        post_id == IF ids = {} THEN 1 ELSE (CHOOSE m \in ids : \A k \in ids : k <= m) + 1
        row == [id |-> post_id, topic |-> topic, tone |-> tone, length |-> length,
                post_type |-> post_type, content |-> content, hashtags |-> hashtags,
                created_at |-> now, is_favorite |-> 0]
    IN  DbResult([d EXCEPT !.posts = Append(@, row), !.post_seq = post_id], post_id)

\* INSERT INTO posts: AUTOINCREMENT gives one more than the largest id ever
\* used, created_at and is_favorite take their defaults
save_post(d, now, topic, tone, length, content, hashtags, post_type) ==
    LET post_id == d.post_seq + 1
        row == [id |-> post_id, topic |-> topic, tone |-> tone, length |-> length,
                post_type |-> post_type, content |-> content, hashtags |-> hashtags,
                created_at |-> now, is_favorite |-> 0]
    IN  DbResult([d EXCEPT !.posts = Append(@, row), !.post_seq = post_id], post_id)

get_all_posts(d, limit, offset, ties) ==
    dicts(limit_offset(order_by_desc(d.posts, "created_at", latest_of(d.posts, "created_at"), ties),
                       limit, offset),
          post_dict)

\* None when no row has the id
get_post_by_id(d, post_id) ==
    LET found == SelectSeq(d.posts, LAMBDA r : r.id = post_id)
    IN  IF found # <<>> THEN [kind |-> "post", post |-> post_dict(found[1])]
        ELSE [kind |-> "None"]

delete_post_reports_true(d, post_id) ==
    DbResult([d EXCEPT !.posts = SelectSeq(@, LAMBDA r : r.id # post_id)], TRUE)

\* DELETE FROM posts WHERE id = ?; cursor.rowcount > 0
delete_post(d, post_id) ==
    DbResult([d EXCEPT !.posts = SelectSeq(@, LAMBDA r : r.id # post_id)],
             \E i \in 1..Len(d.posts) : d.posts[i].id = post_id)

\* an UPDATE that matches no row
toggle_favorite_no_row(d, post_id) == DbResult(d, TRUE)

toggle_favorite_set(d, post_id) ==
    DbResult([d EXCEPT !.posts = [i \in 1..Len(@) |->
                 IF @[i].id = post_id THEN [@[i] EXCEPT !.is_favorite = 1] ELSE @[i]]],
             TRUE)

\* UPDATE posts SET is_favorite = CASE WHEN is_favorite = 1 THEN 0 ELSE 1 END
\* WHERE id = ?; returns True whether or not a row matched
toggle_favorite(d, post_id) ==
    DbResult([d EXCEPT !.posts = [i \in 1..Len(@) |->
                 IF @[i].id = post_id
                 THEN [@[i] EXCEPT !.is_favorite = IF @ = 1 THEN 0 ELSE 1]
                 ELSE @[i]]],
             TRUE)

get_favorites(d, ties) ==
    dicts(order_by_desc(SelectSeq(d.posts, LAMBDA r : r.is_favorite = 1), "created_at",
                        latest_of(d.posts, "created_at"), ties),
          post_dict)

save_draft(d, now, title, content, hashtags, notes) ==
    LET draft_id == d.draft_seq + 1
        row == [id |-> draft_id, title |-> title, content |-> content, hashtags |-> hashtags,
                notes |-> notes, created_at |-> now, updated_at |-> now]
    IN  DbResult([d EXCEPT !.drafts = Append(@, row), !.draft_seq = draft_id], draft_id)

get_all_drafts(d, ties) ==
    dicts(order_by_desc(d.drafts, "updated_at", latest_of(d.drafts, "updated_at"), ties),
          draft_dict)

\* an update that stamps the draft also when no field is passed
update_draft_always_stamps(d, now, draft_id, title, content, hashtags, notes) ==
    DbResult([d EXCEPT !.drafts = [i \in 1..Len(@) |->
                 IF @[i].id = draft_id
                 THEN [@[i] EXCEPT !.title = IF title.kind # "None" THEN title.value ELSE @,
                                   !.content = IF content.kind # "None" THEN content.value ELSE @,
                                   !.hashtags = IF hashtags.kind # "None" THEN hashtags.value ELSE @,
                                   !.notes = IF notes.kind # "None" THEN notes.value ELSE @,
                                   !.updated_at = now]
                 ELSE @[i]]],
             \E i \in 1..Len(d.drafts) : d.drafts[i].id = draft_id)

\* UPDATE drafts SET <the fields passed>, updated_at = CURRENT_TIMESTAMP WHERE
\* id = ?; returns False before any statement when every field is None, and
\* cursor.rowcount > 0 otherwise
update_draft(d, now, draft_id, title, content, hashtags, notes) ==
    IF \A x \in {title, content, hashtags, notes} : x.kind = "None"
    THEN DbResult(d, FALSE)
    ELSE DbResult([d EXCEPT !.drafts = [i \in 1..Len(@) |->
                     IF @[i].id = draft_id
                     THEN [@[i] EXCEPT
                              !.title = IF title.kind # "None" THEN title.value ELSE @,
                              !.content = IF content.kind # "None" THEN content.value ELSE @,
                              !.hashtags = IF hashtags.kind # "None" THEN hashtags.value ELSE @,
                              !.notes = IF notes.kind # "None" THEN notes.value ELSE @,
                              !.updated_at = now]
                     ELSE @[i]]],
                  \E i \in 1..Len(d.drafts) : d.drafts[i].id = draft_id)

delete_draft(d, draft_id) ==
    DbResult([d EXCEPT !.drafts = SelectSeq(@, LAMBDA r : r.id # draft_id)],
             \E i \in 1..Len(d.drafts) : d.drafts[i].id = draft_id)

\* SELECT value FROM settings WHERE key = ?; the default when there is no row
get_setting(d, key, default) ==
    LET found == SelectSeq(d.settings, LAMBDA r : r.key = key)
    IN  IF found # <<>> THEN found[1].value ELSE default

\* a plain INSERT that keeps the row the key had
set_setting_insert(d, key, value) ==
    DbResult([d EXCEPT !.settings = Append(@, [key |-> key, value |-> value])],
             [kind |-> "None"])

\* INSERT OR REPLACE: the row that holds the key, if any, is deleted and the
\* new row inserted
set_setting(d, key, value) ==
    DbResult([d EXCEPT !.settings =
                 Append(SelectSeq(@, LAMBDA r : r.key # key), [key |-> key, value |-> value])],
             [kind |-> "None"])

s_NA == <<"N", "/", "A">>

SecondsPerDay == 86400

\* SELECT <column>, COUNT(*) FROM posts GROUP BY <column>: the count of every
\* value that occurs
count_by(rows, column) ==
    [v \in {rows[i][column] : i \in 1..Len(rows)} |->
        Cardinality({i \in 1..Len(rows) : rows[i][column] = v})]

\* ... ORDER BY count DESC LIMIT 1, fetchone(): the values the first row can
\* hold (SQL leaves the order of groups of equal count open), "N/A" for no row
first_group(groups) ==
    IF DOMAIN groups = {} THEN {s_NA}
    ELSE {v \in DOMAIN groups : \A u \in DOMAIN groups : groups[u] <= groups[v]}

\* created_at >= date('now', '-7 days') compares the timestamp's text with a
\* date's: it holds exactly when the row's day is not before the day seven
\* days ago
recent(rows, now) ==
    {i \in 1..Len(rows) : rows[i].created_at \div SecondsPerDay >= now \div SecondsPerDay - 7}

\* statistics that count the ids given out instead of the rows
get_statistics_counts_ids(d, now, most_used_tone, most_used_length) ==
    [total_posts |-> d.post_seq,
     total_drafts |-> d.draft_seq,
     most_used_tone |-> most_used_tone,
     most_used_length |-> most_used_length,
     posts_by_tone |-> count_by(d.posts, "tone"),
     recent_posts |-> Cardinality(recent(d.posts, now))]

\* most_used_tone and most_used_length are the first rows the two ORDER BY
\* count DESC LIMIT 1 queries fetched
get_statistics(d, now, most_used_tone, most_used_length) ==
    [total_posts |-> Len(d.posts),
     total_drafts |-> Len(d.drafts),
     most_used_tone |-> most_used_tone,
     most_used_length |-> most_used_length,
     posts_by_tone |-> count_by(d.posts, "tone"),
     recent_posts |-> Cardinality(recent(d.posts, now))]

(***************************************************************************)
(* Calls into the store                                                    *)
(***************************************************************************)
MaxDbOps == 2
MaxClock == 2

PostInputs ==
    {[topic |-> <<"a">>, tone |-> s_casual, length |-> s_short, content |-> <<"x">>,
      hashtags |-> <<>>, post_type |-> s_general],
     [topic |-> <<"b">>, tone |-> s_professional, length |-> s_long, content |-> <<"y">>,
      hashtags |-> <<"#", "t">>, post_type |-> s_tips]}

DraftInputs ==
    {[title |-> <<"a">>, content |-> <<"x">>, hashtags |-> <<>>, notes |-> <<>>],
     [title |-> <<"b">>, content |-> <<"y">>, hashtags |-> <<"#", "t">>, notes |-> <<"n">>]}

SettingKeys == {"default_tone", "default_length"}
SettingValues == {s_casual, s_professional}
SettingDefaults == {<<>>, s_long}

\* the ids a caller passes: the oldest row's, the newest one's, one never given
IdInputs(seq) == {1, seq, seq + 1}

\* the tables after n calls save_post("o", "casual", "medium", "z") within
\* second 0 on a new file
FilledDb(n) ==
    [EmptyDb EXCEPT
        !.posts = [i \in 1..n |->
                      [id |-> i, topic |-> <<"o">>, tone |-> s_casual, length |-> s_medium,
                       post_type |-> s_general, content |-> <<"z">>, hashtags |-> <<>>,
                       created_at |-> 0, is_favorite |-> 0]],
        !.post_seq = n]

\* the drafts and settings an earlier run left in the file
WithDraftAndSetting(d) ==
    set_setting(save_draft(d, 0, <<"o">>, <<"z">>, <<>>, <<>>).db, "default_tone", s_casual).db

\* Database(): CREATE TABLE IF NOT EXISTS keeps what an earlier run left in the
\* file - nothing, or a draft, a setting and a history that reaches the default
\* page size of the listing
InitStore ==
    /\ PromptsIdle /\ GenIdle /\ UtIdle /\ SessionsIdle /\ AppIdle
    /\ db \in {FilledDb(0), WithDraftAndSetting(FilledDb(DefaultLimit - 1)),
               WithDraftAndSetting(FilledDb(DefaultLimit))}
    /\ clock = 0 /\ db_ops = 0 /\ db_call = NoCall /\ db_ret = NoReturn

\* a writing method: the tables change, the call and its return are recorded
DbWrite(call, result) ==
    /\ db_ops < MaxDbOps
    /\ db' = result.db
    /\ db_ops' = db_ops + 1
    /\ db_call' = call
    /\ db_ret' = Return(result.ret)
    /\ UNCHANGED <<sessions, utvars, prvars, genvars, appvars, clock>>

\* a reading method
DbRead(call, ret) ==
    /\ db_call' = call
    /\ db_ret' = Return(ret)
    /\ UNCHANGED <<sessions, utvars, prvars, genvars, appvars, db, clock, db_ops>>

SavePost ==
    \E in \in PostInputs :
        DbWrite([fn |-> "save_post", args |-> in],
                save_post(db, clock, in.topic, in.tone, in.length, in.content, in.hashtags,
                          in.post_type))

GetAllPosts ==
    \E ties \in TieOrders :
        DbRead([fn |-> "get_all_posts", limit |-> DefaultLimit, offset |-> 0],
               get_all_posts(db, DefaultLimit, 0, ties))

GetPostById ==
    \E post_id \in IdInputs(db.post_seq) :
        DbRead([fn |-> "get_post_by_id", post_id |-> post_id], get_post_by_id(db, post_id))

DeletePost ==
    \E post_id \in IdInputs(db.post_seq) :
        DbWrite([fn |-> "delete_post", post_id |-> post_id], delete_post(db, post_id))

ToggleFavorite ==
    \E post_id \in IdInputs(db.post_seq) :
        DbWrite([fn |-> "toggle_favorite", post_id |-> post_id], toggle_favorite(db, post_id))

GetFavorites ==
    \E ties \in TieOrders :
        DbRead([fn |-> "get_favorites"], get_favorites(db, ties))

SaveDraft ==
    \E in \in DraftInputs :
        DbWrite([fn |-> "save_draft", args |-> in],
                save_draft(db, clock, in.title, in.content, in.hashtags, in.notes))

GetAllDrafts ==
    \E ties \in TieOrders :
        DbRead([fn |-> "get_all_drafts"], get_all_drafts(db, ties))

DeleteDraft ==
    \E draft_id \in IdInputs(db.draft_seq) :
        DbWrite([fn |-> "delete_draft", draft_id |-> draft_id], delete_draft(db, draft_id))

\* each field is left out (None) or passed, the content as an empty string
UpdateDraft ==
    \E draft_id \in IdInputs(db.draft_seq),
       title \in {PyNone, [kind |-> "str", value |-> <<"c">>]},
       content \in {PyNone, [kind |-> "str", value |-> <<>>]},
       hashtags \in {PyNone, [kind |-> "str", value |-> <<"#", "u">>]},
       notes \in {PyNone, [kind |-> "str", value |-> <<"m">>]} :
        DbWrite([fn |-> "update_draft", draft_id |-> draft_id, title |-> title,
                 content |-> content, hashtags |-> hashtags, notes |-> notes],
                update_draft(db, clock, draft_id, title, content, hashtags, notes))

GetSetting ==
    \E key \in SettingKeys, default \in SettingDefaults :
        DbRead([fn |-> "get_setting", key |-> key, default |-> default],
               get_setting(db, key, default))

SetSetting ==
    \E key \in SettingKeys, value \in SettingValues :
        DbWrite([fn |-> "set_setting", key |-> key, value |-> value], set_setting(db, key, value))

\* a second passes; the last call has returned
Tick ==
    /\ clock < MaxClock
    /\ clock' = clock + 1
    /\ db_call' = NoCall
    /\ db_ret' = NoReturn
    /\ UNCHANGED <<sessions, utvars, prvars, genvars, appvars, db, db_ops>>

GetStatistics ==
    \E most_used_tone \in first_group(count_by(db.posts, "tone")),
       most_used_length \in first_group(count_by(db.posts, "length")) :
        DbRead([fn |-> "get_statistics"],
               get_statistics(db, clock, most_used_tone, most_used_length))

\* eight days pass
DaysPass ==
    /\ clock <= MaxClock
    /\ clock' = clock + 8 * SecondsPerDay
    /\ db_call' = NoCall
    /\ db_ret' = NoReturn
    /\ UNCHANGED <<sessions, utvars, prvars, genvars, appvars, db, db_ops>>

\* the posts table
NextStore ==
    \/ SavePost
    \/ GetAllPosts
    \/ GetPostById
    \/ DeletePost
    \/ ToggleFavorite
    \/ GetFavorites
    \/ Tick

SpecStore == InitStore /\ [][NextStore]_vars

\* the drafts and settings tables
NextDrafts ==
    \/ SaveDraft
    \/ GetAllDrafts
    \/ DeleteDraft
    \/ GetSetting
    \/ SetSetting
    \/ Tick

SpecDrafts == InitStore /\ [][NextDrafts]_vars

\* saving and deleting, posts and drafts together
NextIdentity ==
    \/ SavePost
    \/ DeletePost
    \/ SaveDraft
    \/ DeleteDraft
    \/ Tick

SpecIdentity == InitStore /\ [][NextIdentity]_vars

(***************************************************************************)
(* Claims about the posts table                                            *)
(***************************************************************************)
\* the saved arguments as the listing shows them
SavedIn(posts, post_id, args) ==
    \E i \in 1..Len(posts) :
        /\ posts[i].id = post_id
        /\ posts[i].topic = args.topic
        /\ posts[i].tone = args.tone
        /\ posts[i].length = args.length
        /\ posts[i].content = args.content
        /\ posts[i].hashtags = args.hashtags
        /\ posts[i].is_favorite = FALSE

\* C2: when save_post has returned id i, the get_all_posts() that follows it
\* (default limit and offset), whatever order the engine takes for equal
\* timestamps, lists a post with id i that has the saved topic, tone, length,
\* content and hashtags and is not a favorite
C2_RoundTrip ==
    db_call.fn = "save_post" =>
        \A ties \in TieOrders :
            SavedIn(get_all_posts(db, DefaultLimit, 0, ties), db_ret.value, db_call.args)

\* the posts a toggle_favorite(post_id) must leave: the row with the id has its
\* flag inverted and nothing else changed, every other row is as it was
Toggled(posts, post_id) ==
    [i \in 1..Len(posts) |->
        IF posts[i].id = post_id
        THEN [posts[i] EXCEPT !.is_favorite = 1 - posts[i].is_favorite]
        ELSE posts[i]]

\* C3: toggle_favorite(id) on an existing post inverts that post's is_favorite
\* and changes no other field of it, no other post, no draft and no setting;
\* on an id no post has, the whole store is unchanged
C3_ToggleFrame ==
    [][db_call'.fn = "toggle_favorite" =>
          /\ db' = [db EXCEPT !.posts = Toggled(db.posts, db_call'.post_id)]
          /\ (\A i \in 1..Len(db.posts) : db.posts[i].id # db_call'.post_id) => db' = db]_vars

\* a favorite has been toggled back among other posts, a draft and a setting
C3_Witness ==
    /\ db_call.fn = "toggle_favorite"
    /\ db_ops = 2
    /\ Len(db.posts) > 1
    /\ db.drafts # <<>>
    /\ db.settings # <<>>
    /\ \E i \in 1..Len(db.posts) :
          /\ db.posts[i].id = db_call.post_id
          /\ db.posts[i].is_favorite = 0
    /\ \A i \in 1..Len(db.posts) : db.posts[i].is_favorite = 0

(***************************************************************************)
(* Claims about the settings table (checked under SpecDrafts)              *)
(***************************************************************************)
\* the keys that have a row, and the values the rows of a key hold
KeysOf(settings) == {settings[i].key : i \in 1..Len(settings)}
ValuesOf(settings, key) == {settings[i].value : i \in {j \in 1..Len(settings) : settings[j].key = key}}

\* no key has two rows
OneRowPerKey(settings) == Len(settings) = Cardinality(KeysOf(settings))

\* C16: the settings table never holds two rows for a key; set_setting(k, v)
\* leaves k with the single value v, every other key with the value it had,
\* and the posts and drafts as they were; no other store method changes a
\* setting; get_setting(k, d) returns the value k holds - so the value of the
\* most recent set_setting(k, ...) - or d when k has no row.
C16_Settings ==
    [][/\ OneRowPerKey(db.settings) /\ OneRowPerKey(db'.settings)
       /\ (db_call'.fn = "set_setting" /\ db_ops' = db_ops + 1) =>
             /\ ValuesOf(db'.settings, db_call'.key) = {db_call'.value}
             /\ KeysOf(db'.settings) = KeysOf(db.settings) \cup {db_call'.key}
             /\ \A k \in KeysOf(db.settings) \ {db_call'.key} :
                   ValuesOf(db'.settings, k) = ValuesOf(db.settings, k)
             /\ db'.posts = db.posts /\ db'.drafts = db.drafts
             /\ db'.post_seq = db.post_seq /\ db'.draft_seq = db.draft_seq
       /\ db_call'.fn # "set_setting" =>
             /\ KeysOf(db'.settings) = KeysOf(db.settings)
             /\ \A k \in KeysOf(db.settings) :
                   ValuesOf(db'.settings, k) = ValuesOf(db.settings, k)
       /\ db_call'.fn = "get_setting" =>
             db_ret' = Return(IF db_call'.key \in KeysOf(db.settings)
                              THEN CHOOSE v \in ValuesOf(db.settings, db_call'.key) : TRUE
                              ELSE db_call'.default)]_vars

\* C16 witness: default_tone, set to "casual" by an earlier session, was set to
\* "professional" and then read back with another default; default_length was
\* never set and the draft is still there.
C16_Witness ==
    /\ db_call = [fn |-> "get_setting", key |-> "default_tone", default |-> s_long]
    /\ db_ret = Return(s_professional)
    /\ db.settings = <<[key |-> "default_tone", value |-> s_professional]>>
    /\ db_ops = 1
    /\ db.drafts # <<>>

\* the posts table and its statistics
NextStats ==
    \/ SavePost
    \/ DeletePost
    \/ ToggleFavorite
    \/ GetStatistics
    \/ Tick
    \/ DaysPass

SpecStats == InitStore /\ [][NextStats]_vars

(***************************************************************************)
(* Claims about the statistics (checked under SpecStats)                   *)
(***************************************************************************)
RECURSIVE SumOf(_, _)
SumOf(f, keys) ==
    IF keys = {} THEN 0
    ELSE LET k == CHOOSE k \in keys : TRUE IN f[k] + SumOf(f, keys \ {k})

TonesOf(posts) == {posts[i].tone : i \in 1..Len(posts)}

\* C21: after any sequence of save_post, delete_post and toggle_favorite calls
\* get_statistics returns total_posts equal to the number of stored posts,
\* posts_by_tone mapping each tone that occurs to its number of stored posts
\* (the counts summing to total_posts), most_used_tone a tone of maximal count
\* or "N/A" when no post is stored, and recent_posts no larger than total_posts.
C21_Statistics ==
    db_call.fn = "get_statistics" =>
        LET st == db_ret.value
            n(tone) == Cardinality({i \in 1..Len(db.posts) : db.posts[i].tone = tone})
        IN  /\ st.total_posts = Len(db.posts)
            /\ DOMAIN st.posts_by_tone = TonesOf(db.posts)
            /\ \A tone \in TonesOf(db.posts) : st.posts_by_tone[tone] = n(tone)
            /\ SumOf(st.posts_by_tone, DOMAIN st.posts_by_tone) = st.total_posts
            /\ IF db.posts = <<>> THEN st.most_used_tone = s_NA
               ELSE /\ st.most_used_tone \in TonesOf(db.posts)
                    /\ \A tone \in TonesOf(db.posts) : n(tone) <= n(st.most_used_tone)
            /\ st.recent_posts \in 0..st.total_posts

\* a history of 49 old posts, one of them deleted, and a post of another tone
\* saved eight days later: 49 posts, 48 casual and 1 professional, 1 recent
C21_Witness ==
    /\ db_call.fn = "get_statistics"
    /\ db.post_seq = DefaultLimit
    /\ db_ret.value.total_posts = DefaultLimit - 1
    /\ db_ret.value.posts_by_tone[s_casual] = DefaultLimit - 2
    /\ db_ret.value.posts_by_tone[s_professional] = 1
    /\ db_ret.value.most_used_tone = s_casual
    /\ db_ret.value.recent_posts = 1

IdsOf(rows) == {rows[i].id : i \in 1..Len(rows)}

\* the drafts table: saving and editing
NextEdit ==
    \/ SaveDraft
    \/ UpdateDraft
    \/ Tick

SpecEdit == InitStore /\ [][NextEdit]_vars

(***************************************************************************)
(* Claims about editing a draft (checked under SpecEdit)                   *)
(***************************************************************************)
DraftFields == {"title", "content", "hashtags", "notes"}

\* C28: update_draft(id, ...) changes only the fields passed as non-None plus
\* updated_at of the draft with that id, leaving its other fields, its
\* created_at and every other draft unchanged, and returns true; when no field
\* is passed or no draft has that id it returns false and the store, including
\* updated_at, is unchanged.
C28_UpdateDraft ==
    [][(db_ops' = db_ops + 1 /\ db_call'.fn = "update_draft") =>
        LET call == db_call'
            passed == {f \in DraftFields : call[f].kind # "None"}
            stored == \E i \in 1..Len(db.drafts) : db.drafts[i].id = call.draft_id
        IN  /\ db_ret' = Return(passed # {} /\ stored)
            /\ (passed = {} \/ ~stored) => db' = db
            /\ (passed # {} /\ stored) =>
                  /\ Len(db'.drafts) = Len(db.drafts)
                  /\ \A i \in 1..Len(db.drafts) :
                        IF db.drafts[i].id = call.draft_id
                        THEN /\ \A f \in passed : db'.drafts[i][f] = call[f].value
                             /\ \A f \in DraftFields \ passed :
                                   db'.drafts[i][f] = db.drafts[i][f]
                             /\ db'.drafts[i].id = db.drafts[i].id
                             /\ db'.drafts[i].created_at = db.drafts[i].created_at
                             /\ db'.drafts[i].updated_at = clock
                        ELSE db'.drafts[i] = db.drafts[i]
                  /\ db'.posts = db.posts /\ db'.settings = db.settings
                  /\ db'.post_seq = db.post_seq /\ db'.draft_seq = db.draft_seq]_vars

\* the draft of second 0 got a new title in second 1: the call returned True,
\* the title and updated_at changed, the content and created_at did not
C28_Witness ==
    /\ db_call.fn = "update_draft"
    /\ db_call.draft_id = 1
    /\ db_call.title.kind = "str" /\ db_call.content.kind = "None"
    /\ db_call.hashtags.kind = "None" /\ db_call.notes.kind = "None"
    /\ db_ret = Return(TRUE)
    /\ clock = 1
    /\ db.drafts # <<>>
    /\ db.drafts[1] = [id |-> 1, title |-> <<"c">>, content |-> <<"z">>, hashtags |-> <<>>,
                       notes |-> <<>>, created_at |-> 0, updated_at |-> 1]

\* saving, marking and deleting, posts and drafts together
NextDelete ==
    \/ SavePost
    \/ ToggleFavorite
    \/ DeletePost
    \/ SaveDraft
    \/ DeleteDraft
    \/ Tick

SpecDelete == InitStore /\ [][NextDelete]_vars

(***************************************************************************)
(* Claims about deleting (checked under SpecDelete)                        *)
(***************************************************************************)
\* C27: delete_post(id) returns true exactly when a post with that id was
\* stored; afterwards get_post_by_id(id) returns None and the post is in
\* neither get_all_posts nor get_favorites, and every other post is unchanged;
\* when no such post exists it returns false and the store is unchanged.
\* delete_draft behaves the same way for drafts.
C27_Delete ==
    [][/\ (db_ops' = db_ops + 1 /\ db_call'.fn = "delete_post") =>
            LET post_id == db_call'.post_id
                stored == post_id \in IdsOf(db.posts)
            IN  /\ db_ret' = Return(stored)
                /\ get_post_by_id(db', post_id).kind = "None"
                /\ \A ties \in TieOrders :
                      /\ post_id \notin IdsOf(get_all_posts(db', DefaultLimit, 0, ties))
                      /\ post_id \notin IdsOf(get_favorites(db', ties))
                /\ db'.posts = SelectSeq(db.posts, LAMBDA r : r.id # post_id)
                /\ stored => Len(db'.posts) = Len(db.posts) - 1
                /\ ~stored => db' = db
                /\ db'.drafts = db.drafts /\ db'.settings = db.settings
       /\ (db_ops' = db_ops + 1 /\ db_call'.fn = "delete_draft") =>
            LET draft_id == db_call'.draft_id
                stored == draft_id \in IdsOf(db.drafts)
            IN  /\ db_ret' = Return(stored)
                /\ \A ties \in TieOrders : draft_id \notin IdsOf(get_all_drafts(db', ties))
                /\ db'.drafts = SelectSeq(db.drafts, LAMBDA r : r.id # draft_id)
                /\ stored => Len(db'.drafts) = Len(db.drafts) - 1
                /\ ~stored => db' = db
                /\ db'.posts = db.posts /\ db'.settings = db.settings]_vars

\* the oldest of 49 posts was marked as favorite and then deleted: 48 posts
\* are left, none of them a favorite, and the call returned True
C27_Witness ==
    /\ db_call = [fn |-> "delete_post", post_id |-> 1]
    /\ db_ret = Return(TRUE)
    /\ db_ops = 2
    /\ Len(db.posts) = DefaultLimit - 2
    /\ db.post_seq = DefaultLimit - 1
    /\ 1 \notin IdsOf(db.posts)

(***************************************************************************)
(* Claims about identity (checked under SpecIdentity)                      *)
(***************************************************************************)

\* no two rows share an id and none is above the table's AUTOINCREMENT counter
DistinctIds(rows, seq) ==
    /\ Cardinality(IdsOf(rows)) = Len(rows)
    /\ \A id \in IdsOf(rows) : id <= seq

\* C18: the rows of posts, and of drafts, have pairwise distinct ids; the
\* AUTOINCREMENT counter of a table never decreases and bounds every id given
\* so far, and the id save_post / save_draft returns is the new row's, above the
\* counter - so it differs from every id returned before, deleted or not.
C18_UniqueIds ==
    [][/\ DistinctIds(db.posts, db.post_seq) /\ DistinctIds(db'.posts, db'.post_seq)
       /\ DistinctIds(db.drafts, db.draft_seq) /\ DistinctIds(db'.drafts, db'.draft_seq)
       /\ db'.post_seq >= db.post_seq /\ db'.draft_seq >= db.draft_seq
       /\ (db_call'.fn = "save_post" /\ db_ops' = db_ops + 1) =>
             /\ db_ret'.value > db.post_seq
             /\ db_ret'.value <= db'.post_seq
             /\ IdsOf(db'.posts) = IdsOf(db.posts) \cup {db_ret'.value}
       /\ (db_call'.fn = "save_draft" /\ db_ops' = db_ops + 1) =>
             /\ db_ret'.value > db.draft_seq
             /\ db_ret'.value <= db'.draft_seq
             /\ IdsOf(db'.drafts) = IdsOf(db.drafts) \cup {db_ret'.value}]_vars

\* C18 witness: the newest of 49 posts was deleted and the post saved next got
\* id 50, not the freed 49.
C18_Witness ==
    /\ db_call.fn = "save_post"
    /\ db_ret = Return(DefaultLimit)
    /\ Len(db.posts) = DefaultLimit - 1
    /\ \A i \in 1..Len(db.posts) : db.posts[i].id # DefaultLimit - 1

(***************************************************************************)
(* src/app.py: the Streamlit pages                                         *)
(*                                                                         *)
(* Streamlit runs the script from top to bottom on every widget event, and *)
(* a button is True only in the run its click starts.  One script run is   *)
(* one action; what the run has done so far is threaded through the page   *)
(* functions as w: the session state, the tables, the outcomes the service *)
(* has ready for the next requests, the calls made, the messages shown.    *)
(***************************************************************************)
s_your_groq_api_key_here ==
    <<"y", "o", "u", "r", "_", "g", "r", "o", "q", "_", "a", "p", "i", "_", "k", "e", "y",
      "_", "h", "e", "r", "e">>
s_Casual == <<"C", "a", "s", "u", "a", "l">>
s_Short == <<"S", "h", "o", "r", "t">>
s_Medium == <<"M", "e", "d", "i", "u", "m">>
s_General == <<"G", "e", "n", "e", "r", "a", "l">>
s_Industry_Insight ==
    <<"I", "n", "d", "u", "s", "t", "r", "y", " ", "I", "n", "s", "i", "g", "h", "t">>
s_True == <<"T", "r", "u", "e">>
s_False == <<"F", "a", "l", "s", "e">>

\* a str, where None is possible too
Str(value) == [kind |-> "str", value |-> value]

\* `not x` for x a str or None
falsy(x) == x.kind = "None" \/ x.value = <<>>

LinkedInPostGenerator_accepts_placeholder(api_key, getenv) ==
    LET key == IF falsy(api_key) THEN getenv ELSE api_key
    IN  IF falsy(key)
        THEN Raise("ValueError", <<"Please set your GROQ_API_KEY in the .env file">>)
        ELSE Return([kind |-> "client", api_key |-> key.value])

\* LinkedInPostGenerator(api_key), getenv being os.getenv("GROQ_API_KEY"):
\* the client, or ValueError
LinkedInPostGenerator(api_key, getenv) ==
    LET key == IF falsy(api_key) THEN getenv ELSE api_key
    IN  IF falsy(key) \/ key.value = s_your_groq_api_key_here
        THEN Raise("ValueError", <<"Please set your GROQ_API_KEY in the .env file">>)
        ELSE Return([kind |-> "client", api_key |-> key.value])

\* test_api_connection(api_key): (success, message); every exception, the
\* constructor's included, is caught
test_api_connection(api_key, getenv, outs) ==
    LET generator == LinkedInPostGenerator(api_key, getenv)
        request == [Request([template |-> <<"Say 'API connection successful'", <<>>>>,
                             args |-> <<>>], 70, 50)
                      EXCEPT !.system = "You are a test assistant."]
        test_response == _call_groq_api(outs[1])
    IN  IF generator.kind = "raise"
        THEN Ended(<<>>, Return(<<FALSE, <<"Connection failed: ">> \o generator.message>>))
        ELSE IF test_response.kind = "raise"
        THEN Ended(<<request>>,
                   Return(<<FALSE, <<"Connection failed: ">> \o test_response.message>>))
        ELSE Ended(<<request>>, Return(<<TRUE, <<"Connection successful!">>>>))

\* utils.format_hashtags
format_hashtags(hashtags) ==
    IF hashtags = <<>> THEN <<>>
    ELSE LET tags == split_ws(replace(hashtags, ",", " "))
         IN  join(<<" ">>, [i \in 1..Len(tags) |->
                               IF startswith(tags[i], <<"#">>) THEN tags[i]
                               ELSE <<"#">> \o tags[i]])

Pages == {"Home", "My Drafts", "History", "Favorites", "Settings", "Analytics"}

\* st.session_state after init_session_state; variations, hooks and
\* editing_draft are absent keys until a page sets them, read as empty
init_session_state(getenv) ==
    LET generator == LinkedInPostGenerator(PyNone, getenv)
    IN  [generated_post |-> <<>>, generated_hashtags |-> <<>>, current_topic |-> <<>>,
         generator |-> IF generator.kind = "raise" THEN PyNone ELSE generator.value,
         api_error |-> IF generator.kind = "raise" THEN generator.message ELSE <<>>,
         page |-> "Home", variations |-> <<>>, hooks |-> <<>>, editing_draft |-> PyNone,
         confirm_clear_history |-> FALSE, confirm_clear_drafts |-> FALSE]

\* a script run at its start
Started(ss, d, outs) ==
    [ss |-> ss, db |-> d, outs |-> outs, calls |-> <<>>, output |-> <<>>, rerun |-> FALSE,
     error |-> "none"]

\* a method of the generation client was invoked: the method, the number of
\* requests it sent and how it ended are noted; it used the outcomes of the
\* requests it sent
Called(w, fn, ended) ==
    [w EXCEPT !.calls = Append(@, [fn |-> fn, requests |-> Len(ended.requests),
                                   ret |-> ended.ret.kind]),
              !.outs = SubSeq(@, Len(ended.requests) + 1, Len(@))]

\* a writing method of the store was called
StoreCalled(w, fn, result) ==
    [w EXCEPT !.db = result.db,
              !.calls = Append(@, [fn |-> fn, requests |-> 0, ret |-> "return"])]

\* st.success, st.error, st.warning, st.info, st.code, st.markdown
Show(w, kind, text) == [w EXCEPT !.output = Append(@, [kind |-> kind, text |-> text])]

\* st.rerun(): the run stops here and the script starts over
Rerun(w) == [w EXCEPT !.rerun = TRUE]

\* the post with its hashtags, as the Copy buttons show it
full_text(content, hashtags) ==
    IF hashtags # <<>> THEN content \o <<"\n", "\n">> \o hashtags ELSE content

\* body(value), with the value computed once
With(value, body(_)) == CHOOSE result \in {body(x) : x \in {value}} : TRUE

\* render_home_page, `if generate_btn and topic: ... elif generate_btn:`
\* a handler that records the post as soon as generate_post has returned
generate_post_clicked_saves_first(w, now, topic, tone, length, post_type, include_hashtags) ==
    LET save_to_history(w4) ==
            StoreCalled(w4, "save_post",
                        save_post(w4.db, now, topic, lower(tone), lower(length),
                                  w4.ss.generated_post, w4.ss.generated_hashtags,
                                  lower(post_type)))
        with_hashtags(w2) ==
            With(generate_hashtags(topic, w2.outs), LAMBDA hashtags :
                IF hashtags.ret.kind = "raise"
                THEN Show(Called(w2, "generate_hashtags", hashtags),
                          "error", <<"Error: ">> \o hashtags.ret.message)
                ELSE Show([Called(w2, "generate_hashtags", hashtags)
                              EXCEPT !.ss.generated_hashtags =
                                         format_hashtags(hashtags.ret.value)],
                          "success", <<"Post generated successfully!">>))
        generated(post) ==
            IF post.ret.kind = "raise"
            THEN Show(Called(w, "generate_post", post), "error", <<"Error: ">> \o post.ret.message)
            ELSE With(save_to_history([Called(w, "generate_post", post)
                                          EXCEPT !.ss.generated_post = post.ret.value,
                                                 !.ss.current_topic = topic]),
                      LAMBDA w2 :
                          IF include_hashtags THEN with_hashtags(w2)
                          ELSE Show([w2 EXCEPT !.ss.generated_hashtags = <<>>],
                                    "success", <<"Post generated successfully!">>))
    IN  IF topic = <<>> THEN Show(w, "warning", <<"Please enter a topic first!">>)
        ELSE With(generate_post(topic, lower(tone), lower(length),
                                replace(lower(post_type), " ", "_"), w.outs),
                  generated)

generate_post_clicked(w, now, topic, tone, length, post_type, include_hashtags) ==
    LET save_to_history(w4) ==
            StoreCalled(Show(w4, "success", <<"Post generated successfully!">>), "save_post",
                        save_post(w4.db, now, topic, lower(tone), lower(length),
                                  w4.ss.generated_post, w4.ss.generated_hashtags,
                                  lower(post_type)))
        with_hashtags(w2) ==
            With(generate_hashtags(topic, w2.outs), LAMBDA hashtags :
                IF hashtags.ret.kind = "raise"
                THEN Show(Called(w2, "generate_hashtags", hashtags),
                          "error", <<"Error: ">> \o hashtags.ret.message)
                ELSE With([Called(w2, "generate_hashtags", hashtags)
                              EXCEPT !.ss.generated_hashtags =
                                         format_hashtags(hashtags.ret.value)],
                          save_to_history))
        generated(post) ==
            IF post.ret.kind = "raise"
            THEN Show(Called(w, "generate_post", post), "error", <<"Error: ">> \o post.ret.message)
            ELSE With([Called(w, "generate_post", post)
                          EXCEPT !.ss.generated_post = post.ret.value,
                                 !.ss.current_topic = topic],
                      LAMBDA w2 :
                          IF include_hashtags THEN with_hashtags(w2)
                          ELSE With([w2 EXCEPT !.ss.generated_hashtags = <<>>],
                                    save_to_history))
    IN  IF topic = <<>> THEN Show(w, "warning", <<"Please enter a topic first!">>)
        ELSE With(generate_post(topic, lower(tone), lower(length),
                                replace(lower(post_type), " ", "_"), w.outs),
                  generated)

\* render_home_page, `if variations_btn and topic:`
variations_clicked(w, topic, tone, length) ==
    IF topic = <<>> THEN w
    ELSE With(generate_variations(topic, lower(tone), lower(length), 3, w.outs),
              LAMBDA variations :
                  IF variations.ret.kind = "raise"
                  THEN Show(Called(w, "generate_variations", variations),
                            "error", <<"Error: ">> \o variations.ret.message)
                  ELSE Show([Called(w, "generate_variations", variations)
                                EXCEPT !.ss.variations = variations.ret.value],
                            "success", <<"Variations generated!">>))

\* render_home_page, `if hooks_btn and topic:`
hooks_clicked(w, topic) ==
    IF topic = <<>> THEN w
    ELSE With(generate_hooks(topic, w.outs), LAMBDA hooks :
              IF hooks.ret.kind = "raise"
              THEN Show(Called(w, "generate_hooks", hooks),
                        "error", <<"Error: ">> \o hooks.ret.message)
              ELSE Show([Called(w, "generate_hooks", hooks) EXCEPT !.ss.hooks = hooks.ret.value],
                        "success", <<"Hooks generated!">>))

\* render_home_page, the Engagement Prediction expander: it is rendered, and
\* the prediction requested, in every run that shows a generated post
engagement_prediction(w) ==
    With(predict_engagement(w.ss.generated_post, w.outs), LAMBDA prediction :
        IF prediction.ret.kind = "raise"
        THEN Show(Called(w, "predict_engagement", prediction),
                  "error", <<"Could not predict engagement: ">> \o prediction.ret.message)
        ELSE Show(Called(w, "predict_engagement", prediction),
                  "score", <<prediction.ret.value.total, prediction.ret.value.prediction>>))

\* render_home_page, the buttons under a generated post
\* an assignment that also rewrites the newest stored post
show_post_and_store(w, text) ==
    [w EXCEPT !.ss.generated_post = text,
              !.db.posts = IF @ = <<>> THEN @ ELSE [@ EXCEPT ![Len(@)].content = text]]

\* st.session_state.generated_post = <a refined post, a post with emojis, a variation>
show_post(w, text) == [w EXCEPT !.ss.generated_post = text]

post_buttons(w, now, event) ==
    CASE event.button = "copy" ->
            Show(Show(w, "code", <<full_text(w.ss.generated_post, w.ss.generated_hashtags)>>),
                 "success", <<"Copy the text above!">>)
      [] event.button = "save_draft" ->
            Show(StoreCalled(w, "save_draft",
                             save_draft(w.db, now,
                                        SubSeq(w.ss.current_topic, 1,
                                               min(50, Len(w.ss.current_topic))),
                                        w.ss.generated_post, w.ss.generated_hashtags, <<>>)),
                 "success", <<"Saved to drafts!">>)
      [] event.button = "regenerate" -> Rerun(w)
      [] event.button = "add_emojis" ->
            With(add_emojis(w.ss.generated_post, w.ss.current_topic, w.outs),
                 LAMBDA post_with_emojis :
                     IF post_with_emojis.ret.kind = "raise"
                     THEN Show(Called(w, "add_emojis", post_with_emojis),
                               "error", <<"Error: ">> \o post_with_emojis.ret.message)
                     ELSE Rerun(show_post(Called(w, "add_emojis", post_with_emojis),
                                          post_with_emojis.ret.value)))
      [] event.button = "refine" ->
            With(refine_post(w.ss.generated_post, event.refinement_type, w.outs),
                 LAMBDA refined :
                     IF refined.ret.kind = "raise"
                     THEN Show(Called(w, "refine_post", refined),
                               "error", <<"Error: ">> \o refined.ret.message)
                     ELSE Rerun(show_post(Called(w, "refine_post", refined),
                                          refined.ret.value)))
      [] OTHER -> w

render_home_page(w, now, event) ==
    LET input_details(w0) ==
            CASE event.button = "generate" ->
                    generate_post_clicked(w0, now, event.topic, event.tone, event.length,
                                          event.post_type, event.include_hashtags)
              [] event.button = "variations" ->
                    variations_clicked(w0, event.topic, event.tone, event.length)
              [] event.button = "hooks" -> hooks_clicked(w0, event.topic)
              [] OTHER -> w0
        generated_content(w1) ==
            IF w1.ss.generated_post # <<>>
            THEN With(engagement_prediction(w1), LAMBDA w2 : post_buttons(w2, now, event))
            ELSE Show(w1, "info", <<"Enter a topic and click 'Generate Post' to get started!">>)
        variations(w2) ==
            IF ~w2.rerun /\ event.button = "use_variation"
            THEN Rerun(show_post(w2, w2.ss.variations[event.i]))
            ELSE w2
    IN  IF w.ss.generator.kind = "None"
        THEN Show(Show(w, "error", <<"Groq API Key not configured!">>),
                  "info", <<"Please add your GROQ_API_KEY to the .env file">>)
        ELSE With(With(input_details(w), generated_content), variations)

render_drafts_page(w, event, ties) ==
    With(get_all_drafts(w.db, ties), LAMBDA drafts :
        IF drafts = <<>>
        THEN Show(w, "info",
                  <<"No drafts saved yet. Generate some posts and save them as drafts!">>)
        ELSE IF event.button = "none" THEN Show(w, "drafts", drafts)
        ELSE With(drafts[CHOOSE i \in 1..Len(drafts) : drafts[i].id = event.id], LAMBDA draft :
            CASE event.button = "copy_draft" ->
                    Show(Show(w, "drafts", drafts),
                         "code", <<full_text(draft.content, draft.hashtags)>>)
              [] event.button = "edit_draft" ->
                    [Show(w, "drafts", drafts) EXCEPT !.ss.editing_draft = draft]
              [] event.button = "delete_draft" ->
                    Rerun(Show(StoreCalled(Show(w, "drafts", drafts), "delete_draft",
                                           delete_draft(w.db, draft.id)),
                               "success", <<"Deleted!">>))))

\* db.get_all_posts(limit=100), the History page's query
HistoryLimit == 100

\* the filters of render_history_page
filter_posts(posts, filter_tone, filter_length) ==
    LET by_tone == IF filter_tone # {}
                   THEN SelectSeq(posts, LAMBDA p : p.tone \in filter_tone) ELSE posts
    IN  IF filter_length # {}
        THEN SelectSeq(by_tone, LAMBDA p : p.length \in filter_length) ELSE by_tone

\* "Oldest First" makes filtered_posts a reversed() iterator, and len() of it
\* raises TypeError: the run ends there
render_history_page(w, event, ties) ==
    With(get_all_posts(w.db, HistoryLimit, 0, ties), LAMBDA posts :
        IF posts = <<>>
        THEN Show(w, "info", <<"No posts in history yet. Start generating posts!">>)
        ELSE IF event.sort_by = "Oldest First" THEN [w EXCEPT !.error = "TypeError"]
        ELSE With(filter_posts(posts, event.filter_tone, event.filter_length),
                  LAMBDA filtered_posts :
            IF event.button = "none" THEN Show(w, "posts", filtered_posts)
            ELSE IF event.button = "export"
            THEN Show(Show(w, "posts", filtered_posts), "download", filtered_posts)
            ELSE With(filtered_posts[CHOOSE i \in 1..Len(filtered_posts) :
                                         filtered_posts[i].id = event.id],
                      LAMBDA post :
                CASE event.button = "copy_post" ->
                        Show(Show(w, "posts", filtered_posts),
                             "code", <<full_text(post.content, post.hashtags)>>)
                  [] event.button = "favorite" ->
                        Rerun(StoreCalled(Show(w, "posts", filtered_posts), "toggle_favorite",
                                          toggle_favorite(w.db, post.id)))
                  [] event.button = "delete_post" ->
                        Rerun(Show(StoreCalled(Show(w, "posts", filtered_posts), "delete_post",
                                               delete_post(w.db, post.id)),
                                   "success", <<"Deleted!">>)))))

render_favorites_page(w, event, ties) ==
    With(get_favorites(w.db, ties), LAMBDA favorites :
        IF favorites = <<>>
        THEN Show(w, "info",
                  <<"No favorite posts yet. Mark posts as favorites from the History page!">>)
        ELSE IF event.button = "none" THEN Show(w, "posts", favorites)
        ELSE With(favorites[CHOOSE i \in 1..Len(favorites) : favorites[i].id = event.id],
                  LAMBDA post :
            CASE event.button = "copy_fav" ->
                    Show(Show(w, "posts", favorites),
                         "code", <<full_text(post.content, post.hashtags)>>)
              [] event.button = "unfavorite" ->
                    Rerun(StoreCalled(Show(w, "posts", favorites), "toggle_favorite",
                                      toggle_favorite(w.db, post.id)))
              [] event.button = "delete_fav" ->
                    Rerun(StoreCalled(Show(w, "posts", favorites), "delete_post",
                                      delete_post(w.db, post.id)))))

render_settings_page(w, event, getenv) ==
    LET set(w0, key, value) ==
            With(w0, LAMBDA w1 : StoreCalled(w1, "set_setting", set_setting(w1.db, key, value)))
    IN  CASE event.button = "test_api" ->
                With(test_api_connection(PyNone, getenv, w.outs), LAMBDA tested :
                    Show(Called(w, "test_api_connection", tested),
                         IF tested.ret.value[1] THEN "success" ELSE "error",
                         tested.ret.value[2]))
          [] event.button = "save_preferences" ->
                Show(set(set(set(w, "default_tone", lower(event.default_tone)),
                             "default_length", lower(event.default_length)),
                         "auto_hashtags", IF event.auto_hashtags THEN s_True ELSE s_False),
                     "success", <<"Preferences saved!">>)
          [] event.button = "clear_history" -> [w EXCEPT !.ss.confirm_clear_history = TRUE]
          [] event.button = "clear_drafts" -> [w EXCEPT !.ss.confirm_clear_drafts = TRUE]
          [] OTHER -> w

\* the metrics of get_statistics the page shows, and the charts or the hint
render_analytics_page(w) ==
    IF w.db.posts # <<>>
    THEN Show(Show(w, "metrics", <<Len(w.db.posts), Len(w.db.drafts)>>), "charts", <<>>)
    ELSE Show(Show(w, "metrics", <<Len(w.db.posts), Len(w.db.drafts)>>),
              "info", <<"Generate some posts to see analytics!">>)

\* main(): the sidebar sets the page, the router renders it
main(w, now, event, ties, getenv) ==
    With([w EXCEPT !.ss.page = event.page], LAMBDA w1 :
        CASE event.page = "Home" -> render_home_page(w1, now, event)
          [] event.page = "My Drafts" -> render_drafts_page(w1, event, ties)
          [] event.page = "History" -> render_history_page(w1, event, ties)
          [] event.page = "Favorites" -> render_favorites_page(w1, event, ties)
          [] event.page = "Settings" -> render_settings_page(w1, event, getenv)
          [] event.page = "Analytics" -> render_analytics_page(w1))

(***************************************************************************)
(* Script runs                                                             *)
(***************************************************************************)
MaxRuns == 2

\* GROQ_API_KEY: not set, empty, the placeholder of .env.example, a key
Environs == {PyNone, Str(<<>>), Str(s_your_groq_api_key_here), Str(<<"g", "s", "k">>)}

\* what the service may answer to a request of a run
AppOutcomes == {Reply(<<" ", "#", "t", ",", "u">>), ServiceError("RateLimitError")}
OutcomesFor(n) == [1..n -> AppOutcomes]

\* the same, the answer to the second request (the one a refinement sends
\* after the engagement prediction) possibly another text
RefinedOrOutcomesFor(n) ==
    OutcomesFor(n) \cup {[outs EXCEPT ![2] = Reply(<<"r">>)] : outs \in OutcomesFor(n)}

\* the same, the answer to the first request possibly blank
BlankOrOutcomesFor(n) ==
    OutcomesFor(n) \cup {[outs EXCEPT ![1] = Reply(<<" ">>)] : outs \in OutcomesFor(n)}

AppTopics == {<<>>, <<" ">>, <<"a">>}
AppTones == {s_Casual}
AppLengths == {s_Medium}
AppPostTypes == {s_General, s_Industry_Insight}
AppRefinements == {s_make_shorter, s_make_longer, s_more_professional}
ToneFilters == {{}, {s_casual}}
LengthFilters == {{}, {s_short}}
SortOrders == {"Newest First", "Oldest First"}

\* data/posts.db as earlier sessions left it: two posts, one of them a
\* favorite, a draft and a setting
LeftDb ==
    LET d1 == save_post(EmptyDb, 0, <<"o">>, s_casual, s_short, <<"z">>, <<>>, s_general).db
        d2 == save_post(d1, 0, <<"b">>, s_professional, s_medium, <<"y">>, <<"#", "t">>,
                        s_tips).db
    IN  WithDraftAndSetting(toggle_favorite(d2, 2).db)

Init ==
    /\ PromptsIdle /\ GenIdle /\ UtIdle /\ SessionsIdle
    /\ environ \in Environs
    /\ session_state = init_session_state(environ)
    /\ db \in {EmptyDb, LeftDb}
    /\ clock = 0 /\ db_ops = 0 /\ db_call = NoCall /\ db_ret = NoReturn
    /\ run = NoRun /\ runs = 0

\* the second a run reads from CURRENT_TIMESTAMP: a click comes a second after
\* the run before it
Now == clock + 1

\* one script run, started by the widget event, with the rerun it asks for;
\* page is the page function main() routes to
Script(event, outs, page(_, _)) ==
    /\ runs < MaxRuns
    /\ \E first \in {page(Started(session_state, db, outs), event)} :
       \E last \in {IF first.rerun
                    THEN page([first EXCEPT !.rerun = FALSE, !.output = <<>>],
                              [event EXCEPT !.button = "none"])
                    ELSE first} :
        /\ session_state' = last.ss
        /\ db' = last.db
        /\ run' = [page |-> event.page, event |-> event, calls |-> last.calls,
                   output |-> last.output, error |-> last.error, rerun |-> first.rerun]
        /\ runs' = runs + 1
        /\ clock' = Now
        /\ UNCHANGED <<sessions, utvars, prvars, genvars, db_ops, db_call, db_ret, environ>>

\* a click on a page leaves the sidebar's radio as it is: main() routes to the
\* page the session is on
HomePage(w, event) == render_home_page(w, Now, event)
SettingsPage(w, event) == render_settings_page(w, event, environ)

\* render_home_page returns before it makes a widget when there is no client
Configured == session_state.page = "Home" /\ session_state.generator.kind = "client"

\* the buttons under the generated post are there when a post is shown
PostShown == Configured /\ session_state.generated_post # <<>>

\* the Engagement Prediction expander sends a request in a run that shows a post
Predictions(n) == IF session_state.generator.kind = "client" THEN n ELSE 0

\* the sidebar radio: the page is rendered with its widgets as they start
Navigate ==
    \E page \in Pages, ties \in TieOrders :
      \E outs \in OutcomesFor(IF page = "Home" THEN Predictions(1) ELSE 0) :
        Script([page |-> page, button |-> "none", filter_tone |-> {}, filter_length |-> {},
                sort_by |-> "Newest First"], outs,
               LAMBDA w, event : main(w, Now, event, ties, environ))

\* the filter and sort widgets of the History page, made when there are posts
FilterHistory ==
    /\ session_state.page = "History"
    /\ db.posts # <<>>
    /\ \E filter_tone \in ToneFilters, filter_length \in LengthFilters, sort_by \in SortOrders,
          ties \in TieOrders :
            Script([page |-> "History", button |-> "none", filter_tone |-> filter_tone,
                    filter_length |-> filter_length, sort_by |-> sort_by], <<>>,
                   LAMBDA w, event : render_history_page(w, event, ties))

GeneratePost ==
    /\ Configured
    /\ \E topic \in AppTopics, tone \in AppTones, length \in AppLengths,
          post_type \in AppPostTypes, include_hashtags \in BOOLEAN,
          outs \in BlankOrOutcomesFor(3) :
            Script([page |-> "Home", button |-> "generate", topic |-> topic, tone |-> tone,
                    length |-> length, post_type |-> post_type,
                    include_hashtags |-> include_hashtags], outs, HomePage)

GenerateVariations ==
    /\ Configured
    /\ \E topic \in AppTopics, tone \in AppTones, length \in AppLengths, outs \in OutcomesFor(4) :
            Script([page |-> "Home", button |-> "variations", topic |-> topic, tone |-> tone,
                    length |-> length], outs, HomePage)

GenerateHooks ==
    /\ Configured
    /\ \E topic \in AppTopics, outs \in OutcomesFor(2) :
            Script([page |-> "Home", button |-> "hooks", topic |-> topic], outs, HomePage)

Copy ==
    /\ PostShown
    /\ \E outs \in OutcomesFor(1) :
            Script([page |-> "Home", button |-> "copy"], outs, HomePage)

SaveDraftClicked ==
    /\ PostShown
    /\ \E outs \in OutcomesFor(1) :
            Script([page |-> "Home", button |-> "save_draft"], outs, HomePage)

Regenerate ==
    /\ PostShown
    /\ \E outs \in OutcomesFor(2) :
            Script([page |-> "Home", button |-> "regenerate"], outs, HomePage)

AddEmojis ==
    /\ PostShown
    /\ \E outs \in OutcomesFor(3) :
            Script([page |-> "Home", button |-> "add_emojis"], outs, HomePage)

\* Make Shorter, Make Longer, More Professional
Refine ==
    /\ PostShown
    /\ \E refinement_type \in AppRefinements, outs \in RefinedOrOutcomesFor(3) :
            Script([page |-> "Home", button |-> "refine", refinement_type |-> refinement_type],
                   outs, HomePage)

UseVariation ==
    /\ Configured
    /\ \E i \in 1..Len(session_state.variations), outs \in OutcomesFor(2) :
            Script([page |-> "Home", button |-> "use_variation", i |-> i], outs, HomePage)

\* Copy, Edit, Delete of a draft the page lists
DraftButton ==
    /\ session_state.page = "My Drafts"
    /\ \E button \in {"copy_draft", "edit_draft", "delete_draft"},
          i \in 1..Len(db.drafts), ties \in TieOrders :
            Script([page |-> "My Drafts", button |-> button, id |-> db.drafts[i].id], <<>>,
                   LAMBDA w, event : render_drafts_page(w, event, ties))

\* Export, and Copy, Favorite / Unfavorite, Delete of a post the page lists
HistoryButton ==
    /\ session_state.page = "History"
    /\ \E button \in {"export", "copy_post", "favorite", "delete_post"},
          filter_tone \in ToneFilters, filter_length \in LengthFilters, ties \in TieOrders :
        \E listed \in {filter_posts(get_all_posts(db, HistoryLimit, 0, ties), filter_tone,
                                    filter_length)} :
            \E i \in 1..Len(listed) :
                Script([page |-> "History", button |-> button, id |-> listed[i].id,
                        filter_tone |-> filter_tone, filter_length |-> filter_length,
                        sort_by |-> "Newest First"], <<>>,
                       LAMBDA w, event : render_history_page(w, event, ties))

\* Copy, Unfavorite, Delete of a favorite the page lists
FavoriteButton ==
    /\ session_state.page = "Favorites"
    /\ \E button \in {"copy_fav", "unfavorite", "delete_fav"}, ties \in TieOrders :
        \E listed \in {get_favorites(db, ties)} :
            \E i \in 1..Len(listed) :
                Script([page |-> "Favorites", button |-> button, id |-> listed[i].id], <<>>,
                       LAMBDA w, event : render_favorites_page(w, event, ties))

TestApiConnection ==
    /\ session_state.page = "Settings"
    /\ \E outs \in OutcomesFor(1) :
            Script([page |-> "Settings", button |-> "test_api"], outs, SettingsPage)

SavePreferences ==
    /\ session_state.page = "Settings"
    /\ \E default_tone \in AppTones, default_length \in AppLengths, auto_hashtags \in BOOLEAN :
            Script([page |-> "Settings", button |-> "save_preferences",
                    default_tone |-> default_tone, default_length |-> default_length,
                    auto_hashtags |-> auto_hashtags], <<>>, SettingsPage)

\* Clear History, Clear Drafts
ClearData ==
    /\ session_state.page = "Settings"
    /\ \E button \in {"clear_history", "clear_drafts"} :
            Script([page |-> "Settings", button |-> button], <<>>, SettingsPage)

Next ==
    \/ Navigate
    \/ FilterHistory
    \/ GeneratePost
    \/ GenerateVariations
    \/ GenerateHooks
    \/ Copy
    \/ SaveDraftClicked
    \/ Regenerate
    \/ AddEmojis
    \/ Refine
    \/ UseVariation
    \/ DraftButton
    \/ HistoryButton
    \/ FavoriteButton
    \/ TestApiConnection
    \/ SavePreferences
    \/ ClearData

Spec == Init /\ [][Next]_vars

(***************************************************************************)
(* Claims about the pages (checked under Spec)                             *)
(***************************************************************************)
\* GROQ_API_KEY is not set, is empty or is the placeholder
BadCredential == falsy(environ) \/ environ.value = s_your_groq_api_key_here

GenerationMethods == {"generate_post", "generate_hashtags", "generate_hooks", "refine_post",
                      "generate_variations", "predict_engagement", "add_emojis"}

\* the store-backed pages can be opened, and on the page the session is on
\* every button the page makes for what the store holds can be clicked
StorePagesOperable ==
    /\ ENABLED Navigate
    /\ session_state.page = "My Drafts" /\ db.drafts # <<>> => ENABLED DraftButton
    /\ session_state.page = "History" /\ db.posts # <<>> =>
          ENABLED HistoryButton /\ ENABLED FilterHistory
    /\ session_state.page = "Favorites"
          /\ (\E i \in 1..Len(db.posts) : db.posts[i].is_favorite = 1) => ENABLED FavoriteButton
    /\ session_state.page = "Settings" =>
          ENABLED SavePreferences /\ ENABLED ClearData /\ ENABLED TestApiConnection

\* C8: when the credential is absent, empty or the placeholder, constructing
\* the client raises, the session holds no client, no run invokes a
\* generation method or sends a request to the service (the connection test
\* included), and the drafts, history, favorites, settings and analytics
\* pages stay operable
C8_NoClientNoGeneration ==
    BadCredential =>
        /\ LinkedInPostGenerator(PyNone, environ).kind = "raise"
        /\ session_state.generator.kind = "None"
        /\ run # NoRun =>
              \A i \in 1..Len(run.calls) :
                  run.calls[i].fn \notin GenerationMethods /\ run.calls[i].requests = 0
        /\ runs < MaxRuns => StorePagesOperable

\* with the placeholder as credential the connection test was clicked on the
\* Settings page: it reported a failure and sent nothing
C8_Witness ==
    /\ environ = Str(s_your_groq_api_key_here)
    /\ run.page = "Settings"
    /\ run.event.button = "test_api"
    /\ run.calls = <<[fn |-> "test_api_connection", requests |-> 0, ret |-> "return"]>>
    /\ run.output[1].kind = "error"
    /\ session_state.generator.kind = "None"

(***************************************************************************)
(* Claims about the reply parsers of the generation client (SpecGen)       *)
(***************************************************************************)
\* the whitespace-delimited tokens of s: the maximal runs of characters that
\* are not whitespace, as <<first, last>> index pairs
TokenSpans(s) ==
    {sp \in (1..Len(s)) \X (1..Len(s)) :
        /\ sp[1] <= sp[2]
        /\ \A k \in sp[1]..sp[2] : s[k] \notin Whitespace
        /\ sp[1] = 1 \/ s[sp[1] - 1] \in Whitespace
        /\ sp[2] = Len(s) \/ s[sp[2] + 1] \in Whitespace}

\* the tokens of s that begin with '#', in the order they have in s
HashTokens(s) ==
    LET spans == {sp \in TokenSpans(s) : s[sp[1]] = "#"}
        nth(k) == CHOOSE sp \in spans : Cardinality({t \in spans : t[1] < sp[1]}) = k - 1
    IN  [k \in 1..Cardinality(spans) |-> SubSeq(s, nth(k)[1], nth(k)[2])]

ReplyLines(reply) == split(reply, "\n")

HookLineNumbers(reply) ==
    LET lines == ReplyLines(reply)
        hook == {i \in 1..Len(lines) : startswith(lstrip(lines[i]), s_Hook)}
        nth(k) == CHOOSE i \in hook : Cardinality({j \in hook : j < i}) = k - 1
    IN  [k \in 1..Cardinality(hook) |-> nth(k)]

\* the text of a line after its first colon, without surrounding whitespace
AfterFirstColon(line) ==
    LET at == CHOOSE i \in 1..Len(line) : line[i] = ":" /\ \A j \in 1..(i - 1) : line[j] # ":"
    IN  strip(SubSeq(line, at + 1, Len(line)))

WordChars == {"a", "b", "1", "_"}

count_words(text) == IF text = <<>> THEN 0 ELSE Len(split_ws(text))

count_characters(text, include_spaces) ==
    IF text = <<>> THEN 0
    ELSE IF include_spaces THEN Len(text)
    ELSE Len(SelectSeq(text, LAMBDA c : c # " "))

estimate_read_time_by_characters(text, words_per_minute) == (Len(text) * 60) \div words_per_minute

\* int(word_count / words_per_minute * 60); for the speeds and word counts in
\* use here the double it truncates has the whole part of the exact quotient
estimate_read_time(text, words_per_minute) == (count_words(text) * 60) \div words_per_minute

\* re.findall(r'#(\w+)', text): a match starts at every '#' that a word
\* character follows and runs over the word characters after it
RECURSIVE word_at(_, _)
word_at(text, i) ==
    IF i > Len(text) \/ text[i] \notin WordChars THEN <<>>
    ELSE <<text[i]>> \o word_at(text, i + 1)

RECURSIVE extract_hashtags_from(_, _)
extract_hashtags_from(text, i) ==
    IF i > Len(text) THEN <<>>
    ELSE IF text[i] = "#" /\ word_at(text, i + 1) # <<>>
    THEN <<word_at(text, i + 1)>> \o extract_hashtags_from(text, i + 1 + Len(word_at(text, i + 1)))
    ELSE extract_hashtags_from(text, i + 1)

extract_hashtags(text) == extract_hashtags_from(text, 1)

count_hashtags(text) == Len(extract_hashtags(text))

\* len(re.split(r'[.!?]+', content)) - 1: the number of runs of '.', '!', '?'
sentence_count(content) ==
    Cardinality({i \in 1..Len(content) :
                    /\ content[i] \in {".", "!", "?"}
                    /\ i = 1 \/ content[i - 1] \notin {".", "!", "?"}})

\* re.search(r'https?://', content)
has_urls(content) ==
    \E i \in 1..Len(content) :
        \/ i + 6 <= Len(content) /\ SubSeq(content, i, i + 6) = <<"h", "t", "t", "p", ":", "/", "/">>
        \/ i + 7 <= Len(content)
              /\ SubSeq(content, i, i + 7) = <<"h", "t", "t", "p", "s", ":", "/", "/">>

\* re.search(r'[\U0001F300-\U0001F9FF]', content); the rocket is in the range
has_emojis(content) == \E i \in 1..Len(content) : content[i] = "rocket"

get_post_statistics_timed(content) ==
    [character_count |-> count_characters(content, TRUE),
     character_count_no_spaces |-> count_characters(content, FALSE),
     word_count |-> count_words(content),
     line_count |-> Len(split(content, "\n")),
     sentence_count |-> sentence_count(content),
     hashtag_count |-> count_hashtags(content),
     read_time_seconds |-> estimate_read_time(content, 200) + clock,
     has_emojis |-> has_emojis(content),
     has_urls |-> has_urls(content)]

get_post_statistics(content) ==
    [character_count |-> count_characters(content, TRUE),
     character_count_no_spaces |-> count_characters(content, FALSE),
     word_count |-> count_words(content),
     line_count |-> Len(split(content, "\n")),
     sentence_count |-> sentence_count(content),
     hashtag_count |-> count_hashtags(content),
     read_time_seconds |-> estimate_read_time(content, 200),
     has_emojis |-> has_emojis(content),
     has_urls |-> has_urls(content)]

\* a string of the store's timestamp format, naming the second at
Timestamp(at) == [kind |-> "timestamp", at |-> at]

\* f"{n} {unit}{'s' if n != 1 else ''} ago"
ago(n, unit) == <<n, " ", unit, IF n # 1 THEN "s" ELSE "", " ago">>

\* get_relative_time(timestamp) when datetime.now() reads the second now and
\* us microseconds: diff.total_seconds() is (now - at) + us / 10^6, so it is
\* below a whole bound exactly when now - at is, and int() of its quotient by
\* a whole number is the quotient of now - at
get_relative_time_le(timestamp, now, us) ==
    IF timestamp.kind # "timestamp" THEN <<"unknown">>
    ELSE LET seconds == now - timestamp.at
         IN  IF seconds <= 60 THEN <<"just now">>
             ELSE IF seconds <= 3600 THEN ago(seconds \div 60, "minute")
             ELSE IF seconds <= 86400 THEN ago(seconds \div 3600, "hour")
             ELSE IF seconds <= 604800 THEN ago(seconds \div 86400, "day")
             ELSE ago(seconds \div 604800, "week")

get_relative_time(timestamp, now, us) ==
    IF timestamp.kind # "timestamp" THEN <<"unknown">>
    ELSE LET seconds == now - timestamp.at
         IN  IF seconds < 60 THEN <<"just now">>
             ELSE IF seconds < 3600 THEN ago(seconds \div 60, "minute")
             ELSE IF seconds < 86400 THEN ago(seconds \div 3600, "hour")
             ELSE IF seconds < 604800 THEN ago(seconds \div 86400, "day")
             ELSE ago(seconds \div 604800, "week")

MaxHashtagInputLen == 3
MaxContentLen == 2

HashtagInputs == StringsUpTo({"#", "a", ","}, MaxHashtagInputLen)
                 \cup {<<"a", "i", ",", " ", "m", "l">>, <<"#", "a", "\n", ",", "b", "\t">>,
                       <<" ", "a", " ", " ", "#", "b", " ">>}

Contents == StringsUpTo({"a", " ", "#", "."}, MaxContentLen)
            \cup {<<"a", "\n", "\n", "b", ".">>,
                  <<"h", "t", "t", "p", "s", ":", "/", "/", "a", ".", "b", "!", "?", " ", "rocket">>,
                  <<"#", "a", "_", "1", "#", "#", "b", " ", "h", "t", "t", "p", ":", "/", "/">>}

\* the seconds at which the clock is read: around every bucket boundary
Nows == {0, 1, 59, 60, 61, 119, 120, 3599, 3600, 3601, 7199, 7200, 86399, 86400, 86401,
         172800, 604799, 604800, 1209599, 1209600}

Microseconds == {0, 999999}

\* stored timestamps: the start, a minute later, and a string strptime rejects
TimestampInputs == {Timestamp(0), Timestamp(60), Str(<<"x">>), PyNone}

\* texts of 0, 0, 1, 1, 2, 2, 4 and 7 words
ReadTimeTexts ==
    {<<>>, <<" ", "\n">>, <<"a">>, <<" ", "a", "\t">>, <<"a", " ", "b">>,
     <<"a", " ", " ", "#", "b", ".">>, <<"a", " ", "b", "\n", "a", " ", "b">>,
     <<"a", " ", "b", " ", "a", " ", "b", " ", "a", " ", "b", " ", "a">>}

\* reading speeds: the default and two slow ones
Speeds == {1, 7, 200}

InitUtils ==
    /\ PromptsIdle /\ GenIdle /\ UtIdle /\ SessionsIdle /\ AppIdle
    /\ db = EmptyDb /\ db_ops = 0 /\ db_call = NoCall /\ db_ret = NoReturn
    /\ clock \in Nows

\* the call made last, its result and whether time passed since
Previous == [call |-> ut_call, ret |-> ut_ret, later |-> ut_later]

\* a helper is called; when it is the call made just before, that call and its
\* result are kept beside the new result
UtCall(previous, call, ret) ==
    /\ ut_call' = call
    /\ ut_ret' = ret
    /\ ut_prev' = IF call = previous.call THEN previous ELSE NoCall
    /\ ut_later' = FALSE
    /\ UNCHANGED <<sessions, prvars, genvars, dbvars, appvars>>

CallFormatHashtags ==
    \E hashtags \in HashtagInputs :
        UtCall(Previous, [fn |-> "format_hashtags", arg |-> hashtags], format_hashtags(hashtags))

CallGetPostStatistics ==
    \E content \in Contents :
        UtCall(Previous, [fn |-> "get_post_statistics", arg |-> content], get_post_statistics(content))

CallGetRelativeTime ==
    \E timestamp \in TimestampInputs, us \in Microseconds :
        UtCall(Previous, [fn |-> "get_relative_time", arg |-> timestamp],
               get_relative_time(timestamp, clock, us))

CallEstimateReadTime ==
    \E text \in ReadTimeTexts, words_per_minute \in Speeds :
        UtCall(Previous, [fn |-> "estimate_read_time",
                          arg |-> [text |-> text, words_per_minute |-> words_per_minute]],
               estimate_read_time(text, words_per_minute))

\* time passes between two calls
AdvanceClock ==
    /\ \E now \in Nows : now > clock /\ clock' = now
    /\ ut_later' = TRUE
    /\ UNCHANGED <<sessions, prvars, genvars, appvars, ut_call, ut_ret, ut_prev, db, db_ops, db_call, db_ret>>

NextUtils ==
    \/ CallFormatHashtags
    \/ CallGetPostStatistics
    \/ CallGetRelativeTime
    \/ CallEstimateReadTime
    \/ AdvanceClock

SpecUtils == InitUtils /\ [][NextUtils]_vars

(***************************************************************************)
(* Claims about the helpers (checked under SpecUtils)                      *)
(***************************************************************************)
\* the pieces of s between separators (commas and whitespace), as index pairs
PieceSpans(s) ==
    {sp \in (1..Len(s)) \X (1..Len(s)) :
        /\ sp[1] <= sp[2]
        /\ \A k \in sp[1]..sp[2] : s[k] \notin Whitespace \cup {","}
        /\ sp[1] = 1 \/ s[sp[1] - 1] \in Whitespace \cup {","}
        /\ sp[2] = Len(s) \/ s[sp[2] + 1] \in Whitespace \cup {","}}

\* the pieces in input order
Pieces(s) ==
    LET spans == PieceSpans(s)
        nth(k) == CHOOSE sp \in spans : Cardinality({t \in spans : t[1] < sp[1]}) = k - 1
    IN  [k \in 1..Cardinality(spans) |-> SubSeq(s, nth(k)[1], nth(k)[2])]

RECURSIVE WithoutLeadingHashes(_)
WithoutLeadingHashes(token) ==
    IF token # <<>> /\ Head(token) = "#" THEN WithoutLeadingHashes(Tail(token)) ELSE token

\* C12 as stated: for every input, format_hashtags returns the input's tokens
\* (commas and whitespace separate) in input order joined by single spaces,
\* each with exactly one leading '#'.
C12_ExactlyOneHash ==
    ut_call.fn = "format_hashtags" =>
        LET tokens == Pieces(ut_call.arg)
        IN  IF tokens = <<>> THEN ut_ret = <<>>
            ELSE ut_ret = join(<<" ">>, [k \in 1..Len(tokens) |->
                                            <<"#">> \o WithoutLeadingHashes(tokens[k])])

\* the buckets of the relative time: first second, second after the last (0 for
\* none), unit and its length in seconds
TimeBuckets ==
    {[from |-> 60, to |-> 3600, unit |-> "minute", size |-> 60],
     [from |-> 3600, to |-> 86400, unit |-> "hour", size |-> 3600],
     [from |-> 86400, to |-> 604800, unit |-> "day", size |-> 86400],
     [from |-> 604800, to |-> 0, unit |-> "week", size |-> 604800]}

\* the text for a timestamp s whole seconds in the past
RelativeTimeOf(s) ==
    IF s < 60 THEN <<"just now">>
    ELSE LET b == CHOOSE b \in TimeBuckets : b.from <= s /\ (b.to = 0 \/ s < b.to)
             n == s \div b.size
         IN  <<n, " ", b.unit, IF n = 1 THEN "" ELSE "s", " ago">>

\* C13: a call of get_relative_time with a timestamp s >= 0 whole seconds
\* before the clock reading returns "just now" for s < 60 and otherwise
\* floor(s / unit) with the unit of s's bucket (minute, hour, day, week), the
\* unit plural exactly when the number is not 1; 59 gives "just now", 60 gives
\* "1 minute ago" and 3600 gives "1 hour ago".
C13_RelativeTime ==
    [][(/\ clock' = clock
        /\ ut_call'.fn = "get_relative_time"
        /\ ut_call'.arg.kind = "timestamp"
        /\ clock >= ut_call'.arg.at) =>
            /\ ut_ret' = RelativeTimeOf(clock - ut_call'.arg.at)
            /\ clock - ut_call'.arg.at = 59 => ut_ret' = <<"just now">>
            /\ clock - ut_call'.arg.at = 60 => ut_ret' = <<1, " ", "minute", "", " ago">>
            /\ clock - ut_call'.arg.at = 3600 => ut_ret' = <<1, " ", "hour", "", " ago">>]_vars

\* C13 witness: the formatter was called an hour after the timestamp and
\* answered "1 hour ago".
C13_Witness ==
    /\ ut_call = [fn |-> "get_relative_time", arg |-> Timestamp(0)]
    /\ clock = 3600
    /\ ut_ret = <<1, " ", "hour", "", " ago">>

\* the store methods a run called
StoreCalls(r) == {r.calls[i].fn : i \in 1..Len(r.calls)}

\* C17: in every step of the application each stored post keeps its id, topic,
\* tone, length, post_type, content, hashtags and created_at - refine, add
\* emojis and use variation change the displayed post only; is_favorite
\* changes only in a run that clicked the post's favorite button and called
\* toggle_favorite, and a post is gone only after a run that clicked its
\* delete button and called delete_post.
C17_PostsImmutable ==
    [][\A i \in 1..Len(db.posts) :
          LET p == db.posts[i]
              after == {j \in 1..Len(db'.posts) : db'.posts[j].id = p.id}
          IN  /\ after = {} =>
                    /\ "delete_post" \in StoreCalls(run')
                    /\ run'.event.button \in {"delete_post", "delete_fav"}
                    /\ run'.event.id = p.id
              /\ \A j \in after :
                    /\ [db'.posts[j] EXCEPT !.is_favorite = p.is_favorite] = p
                    /\ db'.posts[j].is_favorite # p.is_favorite =>
                          /\ "toggle_favorite" \in StoreCalls(run')
                          /\ run'.event.button \in {"favorite", "unfavorite"}
                          /\ run'.event.id = p.id]_vars

\* C17 witness: a post was generated and saved, then refined: the page shows
\* the refined text and the stored post still has the text it was saved with.
C17_Witness ==
    /\ run.page = "Home"
    /\ run.event.button = "refine"
    /\ session_state.generated_post = <<"r">>
    /\ \E i \in 1..Len(db.posts) :
          db.posts[i].content = <<"#", "t", ",", "u">> /\ db.posts[i].created_at = 1

\* the places in a run's log where it called one of the methods
CallsOf(r, fns) == {i \in 1..Len(r.calls) : r.calls[i].fn \in fns}

\* the generation calls of the Generate Post action all returned: the post
\* and, when hashtags were requested, the hashtags
GenerationSucceeded(r) ==
    /\ \E i \in CallsOf(r, {"generate_post"}) : r.calls[i].ret = "return"
    /\ r.event.include_hashtags =>
          \E i \in CallsOf(r, {"generate_hashtags"}) : r.calls[i].ret = "return"

\* C19: a run started by Generate Post calls save_post only after generate_post
\* and, when hashtags are requested, generate_hashtags have returned; when they
\* all returned the run inserts exactly one post and keeps the others, and when
\* one of them failed, or none was made, it inserts none.
C19_SaveAfterGeneration ==
    [][run'.event.button = "generate" =>
          LET saves == CallsOf(run', {"save_post"})
              gens == CallsOf(run', {"generate_post", "generate_hashtags"})
          IN  /\ \A s \in saves : \A g \in gens : g < s /\ run'.calls[g].ret = "return"
              /\ IF GenerationSucceeded(run')
                 THEN /\ Cardinality(saves) = 1
                      /\ Len(db'.posts) = Len(db.posts) + 1
                      /\ SubSeq(db'.posts, 1, Len(db.posts)) = db.posts
                 ELSE /\ saves = {}
                      /\ db'.posts = db.posts]_vars

\* C19 witness: Generate Post with hashtags: both generation calls returned,
\* then the post was saved, then the page asked for the engagement prediction.
C19_Witness ==
    /\ run.page = "Home"
    /\ run.event.button = "generate"
    /\ run.event.include_hashtags
    /\ [i \in 1..Len(run.calls) |-> run.calls[i].fn] =
          <<"generate_post", "generate_hashtags", "save_post", "predict_engagement">>
    /\ Len(db.posts) = 1
    /\ db.posts[1].content = session_state.generated_post
    /\ db.posts[1].hashtags = <<"#", "t", " ", "#", "u">>

\* C30 as stated: whenever a Generate Post action replaces the session's
\* displayed generated post, the same action also sets the displayed hashtags
\* for that post and records the post in the store, so that the displayed post
\* of the latest replacement is in the history and the displayed hashtags were
\* generated for it.
C30_DisplayedPostRecorded ==
    [][(/\ run'.event.button = "generate"
        /\ \E i \in CallsOf(run', {"generate_post"}) : run'.calls[i].ret = "return") =>
          /\ CallsOf(run', {"save_post"}) # {}
          /\ Len(db'.posts) = Len(db.posts) + 1
          /\ db'.posts[Len(db'.posts)].content = session_state'.generated_post
          /\ db'.posts[Len(db'.posts)].hashtags = session_state'.generated_hashtags
          /\ IF run'.event.include_hashtags
             THEN \E i \in CallsOf(run', {"generate_hashtags"}) : run'.calls[i].ret = "return"
             ELSE session_state'.generated_hashtags = <<>>]_vars

LongHistoryDb ==
    [EmptyDb EXCEPT
        !.posts = [i \in 1..HistoryLimit + 1 |->
                      [id |-> i, topic |-> <<"o">>,
                       tone |-> IF i = 1 THEN s_casual ELSE s_professional,
                       length |-> IF i = 1 THEN s_short ELSE s_medium,
                       post_type |-> s_general, content |-> <<"z">>, hashtags |-> <<>>,
                       created_at |-> IF i = 1 THEN 0 ELSE 1, is_favorite |-> 0]],
        !.post_seq = HistoryLimit + 1]

InitHistory ==
    /\ PromptsIdle /\ GenIdle /\ UtIdle /\ SessionsIdle
    /\ environ \in Environs
    /\ session_state = init_session_state(environ)
    /\ db \in {LeftDb, LongHistoryDb}
    /\ clock = 1 /\ db_ops = 0 /\ db_call = NoCall /\ db_ret = NoReturn
    /\ run = NoRun /\ runs = 0

NextHistory ==
    \/ Navigate
    \/ FilterHistory

SpecHistory == InitHistory /\ [][NextHistory]_vars

(***************************************************************************)
(* Claims about the History page (checked under SpecHistory)               *)
(***************************************************************************)
\* the stored posts the filters of the run select, as a set of ids
Selected(posts, event) ==
    {posts[j].id : j \in {k \in 1..Len(posts) :
        /\ event.filter_tone = {} \/ posts[k].tone \in event.filter_tone
        /\ event.filter_length = {} \/ posts[k].length \in event.filter_length}}

\* the listings the run rendered
Listings(r) == {r.output[k].text : k \in {n \in 1..Len(r.output) : r.output[n].kind = "posts"}}

ByRecency(listed) ==
    \A i \in 1..Len(listed), j \in 1..Len(listed) :
        i < j => listed[i].created_at >= listed[j].created_at

\* C25 as stated: the History listing filtered by tone and/or length contains
\* exactly the stored posts whose tone and length are among the selected
\* values, ordered by recency, for any number of stored posts.
C25_HistoryFilter ==
    (/\ run.page = "History"
     /\ run.event.sort_by = "Newest First"
     /\ run.event.filter_tone # {} \/ run.event.filter_length # {}) =>
        /\ Listings(run) # {}
        /\ \A listed \in Listings(run) :
              /\ {listed[i].id : i \in 1..Len(listed)} = Selected(db.posts, run.event)
              /\ Len(listed) = Cardinality(Selected(db.posts, run.event))
              /\ ByRecency(listed)

\* C26 as stated: choosing "Oldest First" on the History page completes
\* without error and renders the same filtered posts as "Newest First" in
\* exactly the reverse order.
C26_OldestFirst ==
    (run.page = "History" /\ run.event.sort_by = "Oldest First") =>
        /\ run.error = "none"
        /\ \E ties \in TieOrders :
              Listings(run) = {reverse(filter_posts(get_all_posts(db, HistoryLimit, 0, ties),
                                                    run.event.filter_tone,
                                                    run.event.filter_length))}

(***************************************************************************)
(* Two sessions on one store: the Favorite button of the History page      *)
(*                                                                         *)
(* Every session has its own Database object on the same file, and every   *)
(* method opens its own connection.  A session renders the page (it reads  *)
(* the committed rows), the user clicks Favorite / Unfavorite, and         *)
(* toggle_favorite executes its UPDATE - which opens a write transaction   *)
(* and takes the file's write lock, waiting while another connection holds *)
(* it - and then commits.                                                  *)
(***************************************************************************)
MaxToggles == 2

Sessions == {1, 2}

\* the row with the id
row_of(d, post_id) == d.posts[CHOOSE i \in 1..Len(d.posts) : d.posts[i].id = post_id]

InitSessions ==
    /\ PromptsIdle /\ GenIdle /\ UtIdle /\ AppIdle
    /\ db = LeftDb
    /\ clock = 0 /\ db_ops = 0 /\ db_call = NoCall /\ db_ret = NoReturn
    /\ \E post_id \in IdsOf(LeftDb.posts) :
          sessions = [post_id |-> post_id,
                      initial |-> row_of(LeftDb, post_id).is_favorite,
                      lock |-> 0,
                      uncommitted |-> LeftDb,
                      of |-> [s \in Sessions |-> [pc |-> "idle", saw |-> FALSE, toggles |-> 0]]]

\* render_history_page: get_all_posts, and the label of the button from
\* post['is_favorite'] (app.py 576)
SessionRenders(s) ==
    /\ sessions.of[s].pc \in {"idle", "rendered"}
    /\ sessions.of[s].toggles < MaxToggles
    /\ \E ties \in TieOrders :
        \E posts \in {get_all_posts(db, HistoryLimit, 0, ties)} :
          sessions' = [sessions EXCEPT
                          !.of[s].pc = "rendered",
                          !.of[s].saw = posts[CHOOSE i \in 1..Len(posts) :
                                                 posts[i].id = sessions.post_id].is_favorite]
    /\ UNCHANGED <<utvars, prvars, genvars, appvars, dbvars>>

\* the click: toggle_favorite up to cursor.execute, which needs the write lock
SessionExecutes(s) ==
    /\ sessions.of[s].pc = "rendered"
    /\ sessions.lock = 0
    /\ sessions' = [sessions EXCEPT
                        !.of[s].pc = "executed",
                        !.lock = s,
                        !.uncommitted = toggle_favorite(db, sessions.post_id).db]
    /\ UNCHANGED <<utvars, prvars, genvars, appvars, dbvars>>

\* conn.commit(), conn.close(), return True, st.rerun()
SessionCommits(s) ==
    /\ sessions.of[s].pc = "executed"
    /\ sessions.lock = s
    /\ db' = sessions.uncommitted
    /\ sessions' = [sessions EXCEPT
                        !.of[s].pc = "idle",
                        !.of[s].toggles = @ + 1,
                        !.lock = 0]
    /\ UNCHANGED <<utvars, prvars, genvars, appvars, clock, db_ops, db_call, db_ret>>

NextSessions ==
    \E s \in Sessions :
        \/ SessionRenders(s)
        \/ SessionExecutes(s)
        \/ SessionCommits(s)

SpecSessions == InitSessions /\ [][NextSessions]_vars

(***************************************************************************)
(* Claims about two sessions (checked under SpecSessions)                  *)
(***************************************************************************)
\* C29: when two sessions each invoke toggle_favorite on the same post, in any
\* interleaving, every toggle is applied atomically and none is lost: the
\* stored is_favorite is the initial value inverted once per toggle made, so
\* two sessions that both saw the post as not favorite and both clicked
\* Favorite leave it not favorite.
C29_NoLostToggle ==
    LET made == sessions.of[1].toggles + sessions.of[2].toggles
        stored == row_of(db, sessions.post_id).is_favorite
    IN  /\ stored = (sessions.initial + made) % 2
        /\ \A p \in IdsOf(db.posts) \ {sessions.post_id} : row_of(db, p) = row_of(LeftDb, p)
        /\ (/\ sessions.initial = 0
            /\ \A s \in Sessions : sessions.of[s].toggles = 1 /\ ~sessions.of[s].saw)
              => stored = 0

\* both sessions rendered the post as not favorite, both clicked Favorite, both
\* toggles are committed, and the post is not a favorite
C29_Witness ==
    /\ sessions.post_id = 1
    /\ sessions.initial = 0
    /\ \A s \in Sessions :
          sessions.of[s] = [pc |-> "idle", saw |-> FALSE, toggles |-> 1]
    /\ sessions.lock = 0
    /\ row_of(db, 1).is_favorite = 0

(***************************************************************************)
(* Claims about the engagement scores (checked under SpecGen)              *)
(***************************************************************************)
\* the score lines of a reply that are the only line of their field and carry
\* an integer: <<field, the integer>>
WellFormedScores(reply) ==
    LET lines == split(reply, "\n")
        scored == {p \in ScoreFields \X (1..Len(lines)) :
                      /\ LinesWithPrefix(reply, p[1][2]) = {p[2]}
                      /\ score_of(strip(lines[p[2]])).ok}
    IN  {<<p[1][1], score_of(strip(lines[p[2]])).value>> : p \in scored}

\* C23 as stated: in predict_engagement a score line that fails to parse
\* affects only its own field - every other score field whose line in the reply
\* is well-formed holds that line's integer, whether the malformed line comes
\* before or after it in the reply.
C23_MalformedLineIsLocal ==
    (gen_call.fn = "predict_engagement" /\ gen_outcomes[1].kind = "reply"
        /\ gen_ret.kind = "return") =>
        \A s \in WellFormedScores(gen_outcomes[1].content) : gen_ret.value[s[1]] = s[2]

\* what each line of a reply is to the parsing loop: the field its prefix
\* names ("none" for any other line), whether its score is an integer, and
\* that integer
ScoreLines(reply) ==
    LET lines == split(reply, "\n")
    IN  [i \in 1..Len(lines) |->
            LET line == strip(lines[i])
                fields == {f \in ScoreFields : startswith(line, f[2])}
                score == score_of(line)
            IN  IF fields = {} THEN [field |-> "none", ok |-> TRUE, value |-> 0]
                ELSE [field |-> (CHOOSE f \in fields : TRUE)[1], ok |-> score.ok,
                      value |-> IF score.ok THEN score.value ELSE 0]]

\* C24: predict_engagement stores the integer parsed from each score line
\* unchanged, with no bounding to the declared range of the field (25, 25, 20,
\* 15, 15, 100): a field holds the integer of the last line parsed for it (the
\* lines before the first score line that is not an integer are parsed), so
\* the reply "Hook:30/25" yields hook = 30, and a negative integer is kept.
C24_NoBounding ==
    (gen_call.fn = "predict_engagement" /\ gen_outcomes[1].kind = "reply") =>
        LET reply == gen_outcomes[1].content
            sl == ScoreLines(reply)
            bad == {i \in DOMAIN sl : ~sl[i].ok}
            parsed == {i \in DOMAIN sl : \A j \in bad : i < j}
        IN  /\ gen_ret.kind = "return"
            /\ \A f \in ScoreFields :
                  LET own == {i \in parsed : sl[i].field = f[1]}
                  IN  own # {} =>
                        gen_ret.value[f[1]] = sl[CHOOSE i \in own : \A j \in own : j <= i].value
            /\ reply = s_Hook_colon \o s_body_30 => gen_ret.value.hook = 30
            /\ reply = s_Content_colon \o s_body_neg => gen_ret.value.content = -3

\* the reply "Hook:30/25" and "Content: -3/25": hook is 30 and content is -3
C24_Witness ==
    /\ gen_call.fn = "predict_engagement"
    /\ gen_outcomes[1] = Reply(join(<<"\n">>, <<s_Hook_colon \o s_body_30,
                                                  s_Content_colon \o s_body_neg>>))
    /\ gen_ret.kind = "return"
    /\ gen_ret.value.hook = 30
    /\ gen_ret.value.content = -3

(***************************************************************************)
(* Claims about the read-time estimate (checked under SpecUtils)           *)
(***************************************************************************)
\* C22: for a fixed words-per-minute value estimate_read_time is monotonically
\* non-decreasing in the word count of the text - a text with at least as many
\* words never gets a smaller estimate - and a text with no words gets 0.
C22_ReadTimeMonotone ==
    ut_call.fn = "estimate_read_time" =>
        LET text == ut_call.arg.text
            words_per_minute == ut_call.arg.words_per_minute
        IN  /\ count_words(text) = 0 => ut_ret = 0
            /\ \A other \in ReadTimeTexts :
                   count_words(other) >= count_words(text)
                       => estimate_read_time(other, words_per_minute) >= ut_ret

\* four words at the default speed take 1 second, and the seven-word text 2
C22_Witness ==
    /\ ut_call = [fn |-> "estimate_read_time",
                  arg |-> [text |-> <<"a", " ", "b", "\n", "a", " ", "b">>,
                           words_per_minute |-> 200]]
    /\ ut_ret = 1
    /\ estimate_read_time(<<"a", " ", "b", " ", "a", " ", "b", " ", "a", " ", "b", " ", "a">>, 200) = 2

====
